---- MODULE Spec2Model ----
(***************************************************************************)
(* Model of the MAI Background Chooser (mindprints/BackgroundChecker).     *)
(*                                                                         *)
(* The repository holds two copies of the single-file React component:     *)
(*   src/unnamed/part_001 (the component src/main.jsx mounts), called      *)
(*     "tsx" below, and                                                    *)
(*   src/mai_frontpage/mai_frontpage with video/script.js, called          *)
(*     "script" below.                                                     *)
(* Where the two copies differ, each copy's function is its own operator   *)
(* (the script.js copy carries the suffix Script) and its own action.      *)
(*                                                                         *)
(* JavaScript numbers are modelled as exact rationals <<n, d>> (d > 0, in  *)
(* lowest terms) extended with PosInf, NegInf and NaN for x / 0.          *)
(***************************************************************************)
EXTENDS Integers, Sequences, FiniteSets, TLC

VARIABLES
    img,        \* decoded image: [width, height] (loadImage's result)
    W, H,       \* canvas size handed to drawImageBackground
    fit,        \* useState fit
    pos,        \* useState pos
    rect,       \* result of computeDrawRect, or NoRect
    rectBy,     \* which copy computed rect: "none" | "tsx" | "script"
    overlay,    \* useState overlay
    cardOpacity, \* useState cardOpacity
    cardRGB,    \* the colour picked in the card colour input, as channels
    cardColor,  \* useState cardColor: the colour input's value
    contrastPage, \* useMemo contrastPage, or NoContrast before it ran
    contrastCard, \* useMemo contrastCard, or NoContrast before it ran
    cardCount,  \* useState cardCount
    generatedCards, \* useState generatedCards
    batchCount, \* the count the last generateRandomCards call was given
    batchBy,    \* which copy made generatedCards: "tsx" | "script"
    rng,        \* the state of Math.random: the tape of draws still to come
    item,       \* the background entry at hand (cur), or NoItem
    stops,      \* the colour stops item.css was written with, in order
    repeat,     \* useState repeat
    snippet,    \* the text cssSnippet returned, or "" before it ran
    colors,     \* what extractColors returned for snippet
    colorsBy,   \* which copy's extractColors ran: "none" | "tsx" | "script"
    grad,       \* the canvas gradient drawGradientBackground filled with
    compareA,   \* the entry in compare slot A (items[slotA]), or NoItem
    compareB,   \* the entry in compare slot B (items[slotB]), or NoItem
    showB,      \* useState showB
    decodes,    \* the image sources the browser can decode
    exp,        \* the exportBackgroundPNG call in flight: its position,
                \* its canvas and the state of the promise it returned
    device,     \* useState device
    rotate,     \* useState rotate
    frameStyle, \* what computeFrameStyle(device, rotate) last returned
    items,      \* useState items
    index,      \* useState index
    blur,       \* useState blur
    darkMode,   \* useState darkMode
    ls,         \* localStorage's value under LS_KEY
    app,        \* the component: which copy it is, whether it is mounted,
                \* and how many edits and reloads the session has seen
    download,   \* the last JSON file handed to downloadBlob
    slotA,      \* useState slotA: an index into items, or NoSlot for null
    slotB,      \* useState slotB
    keyScope,   \* the render whose doExportPNG the keydown listener calls:
                \* the showB, slotA, slotB and items that render saw
    pngCall,    \* the arguments of the last doExportPNG call
    saveTimer,  \* the auto-save effect's timeout: whether it is pending, and
                \* the state object its callback will write
    uploads     \* the addUploads calls so far: for each the files its loop
                \* has yet to read, its adds, and whether it has returned

geomVars == <<img, W, H, fit, pos, rect, rectBy>>

contrastVars ==
    <<overlay, cardOpacity, cardRGB, cardColor, contrastPage, contrastCard>>

cardVars == <<cardCount, generatedCards, batchCount, batchBy, rng>>

cssVars == <<item, stops, repeat, snippet, colors, colorsBy, grad>>

exportVars == <<compareA, compareB, showB, decodes, exp>>

viewVars == <<device, rotate, frameStyle>>

\* the compare slots, the keydown listener's render and the last PNG call
slotVars == <<slotA, slotB, keyScope, pngCall>>

sessVars ==
    <<items, index, blur, darkMode, ls, app, download, slotVars, saveTimer,
      uploads>>
sessRest == <<items, index, blur, darkMode, ls, download, slotVars, uploads>>

\* the geometry state other than fit and pos
geomRest == <<img, W, H, rect, rectBy>>

vars ==
    <<geomVars, contrastVars, cardVars, cssVars, exportVars, viewVars,
      sessVars>>

----------------------------------------------------------------------------
(* Bounds *)

\* largest image / canvas side tried by the geometry specification
MaxDim == 4

\* how far beyond the overlay slider's track (0 .. 0.95, step 0.01) a stored
\* overlay is tried, in hundredths
OverlayBeyond == 12

\* the card-opacity values tried are k / OpacityGrid, one step beyond [0, 1]
OpacityGrid == 4

\* Math.random() returns k / RandGrid, k in 0 .. RandGrid - 1
RandGrid == 24

\* consecutive draws of one tape differ by 0 .. RandSteps - 1 grid steps
RandSteps == 3

\* how far outside 1 .. 12 a number typed into the card-count input is tried
CountBeyond == 1

\* most colour stops a gradient entry is written with (extractColors keeps 6)
MaxStops == 7

\* most handlers and timers a session runs, and most times the page is
\* loaded again
MaxEdits == 2
MaxLoads == 1

\* how many addUploads calls a session makes
MaxBatches == 2

----------------------------------------------------------------------------
(* Exact arithmetic on JavaScript numbers *)

RECURSIVE Gcd(_, _)
Gcd(a, b) == IF b = 0 THEN a ELSE Gcd(b, a % b)

Abs(a) == IF a < 0 THEN -a ELSE a

Min(a, b) == IF a < b THEN a ELSE b
Max(a, b) == IF a > b THEN a ELSE b

\* the rational n/d in lowest terms with a positive denominator (d # 0)
Rat(n, d) ==
    LET g == Gcd(Abs(n), Abs(d))
        s == IF d < 0 THEN -1 ELSE 1
    IN  <<s * (n \div g), s * (d \div g)>>

Num(n) == <<n, 1>>

\* x / 0: Infinity, -Infinity and NaN, written with a zero denominator
PosInf == <<1, 0>>
NegInf == <<-1, 0>>
NaN == <<0, 0>>

IsFinite(x) == x[2] # 0

\* sums over the least common denominator, products reduced crosswise, so
\* that intermediate values stay within the 32-bit range
\* (a sum with NaN, or of opposite infinities, is NaN)
RatAdd(x, y) ==
    IF ~IsFinite(x) \/ ~IsFinite(y)
    THEN IF x = NaN \/ y = NaN THEN NaN
         ELSE IF IsFinite(x) THEN y
         ELSE IF IsFinite(y) \/ x = y THEN x
         ELSE NaN
    ELSE
    LET g == Gcd(x[2], y[2])
    IN  Rat(x[1] * (y[2] \div g) + y[1] * (x[2] \div g), (x[2] \div g) * y[2])

RatNeg(x) == <<-x[1], x[2]>>

RatSub(x, y) == RatAdd(x, RatNeg(y))

\* (a product with NaN, or of an infinity and zero, is NaN)
RatMul(x, y) ==
    IF ~IsFinite(x) \/ ~IsFinite(y)
    THEN IF x[1] = 0 \/ y[1] = 0 THEN NaN
         ELSE IF (x[1] > 0) = (y[1] > 0) THEN PosInf ELSE NegInf
    ELSE
    LET g1 == Gcd(Abs(x[1]), y[2])
        g2 == Gcd(Abs(y[1]), x[2])
    IN  Rat((x[1] \div g1) * (y[1] \div g2), (x[2] \div g2) * (y[2] \div g1))

\* JavaScript x / y: a zero divisor gives Infinity or NaN, an infinite
\* divisor zero, and NaN or two infinities NaN
JsDiv(x, y) ==
    IF x = NaN \/ y = NaN \/ (~IsFinite(x) /\ ~IsFinite(y)) THEN NaN
    ELSE IF ~IsFinite(x)
    THEN IF (x[1] > 0) = (y[1] >= 0) THEN PosInf ELSE NegInf
    ELSE IF ~IsFinite(y) THEN Num(0)
    ELSE IF y[1] = 0
    THEN IF x[1] > 0 THEN PosInf ELSE IF x[1] < 0 THEN NegInf ELSE NaN
    ELSE RatMul(x, IF y[1] < 0 THEN <<-y[2], -y[1]>> ELSE <<y[2], y[1]>>)

\* x <= y on finite rationals, by continued-fraction comparison so that no
\* cross product leaves the 32-bit range
RECURSIVE RatLE(_, _)
RatLE(x, y) ==
    LET qx == x[1] \div x[2]
        qy == y[1] \div y[2]
        rx == x[1] % x[2]
        ry == y[1] % y[2]
    IN  IF qx # qy THEN qx < qy
        ELSE IF rx = 0 THEN TRUE
        ELSE IF ry = 0 THEN FALSE
        ELSE RatLE(<<y[2], ry>>, <<x[2], rx>>)

RatLT(x, y) == ~RatLE(y, x)

\* JavaScript x >= y, x > y (any comparison with NaN is false)
JsGE(x, y) ==
    IF x = NaN \/ y = NaN THEN FALSE
    ELSE IF x = PosInf \/ y = NegInf THEN TRUE
    ELSE IF x = NegInf \/ y = PosInf THEN FALSE
    ELSE RatLE(y, x)

JsGT(x, y) ==
    IF x = NaN \/ y = NaN THEN FALSE
    ELSE IF x = y THEN FALSE
    ELSE JsGE(x, y)

\* Math.max / Math.min on finite numbers
MathMax(x, y) == IF RatLE(y, x) THEN x ELSE y
MathMin(x, y) == IF RatLE(x, y) THEN x ELSE y

----------------------------------------------------------------------------
(* JavaScript strings *)

CharAt(s, i) == SubSeq(s, i, i)

\* s.indexOf(t) >= 0
Includes(s, t) ==
    \E i \in 1..(Len(s) - Len(t) + 1) : SubSeq(s, i, i + Len(t) - 1) = t

\* s.split(" "): the pieces of s between single spaces
RECURSIVE SplitFrom(_, _, _)
SplitFrom(s, start, i) ==
    IF i > Len(s) THEN <<SubSeq(s, start, Len(s))>>
    ELSE IF CharAt(s, i) = " "
         THEN <<SubSeq(s, start, i - 1)>> \o SplitFrom(s, i + 1, i + 1)
         ELSE SplitFrom(s, start, i + 1)

Split(s) == SplitFrom(s, 1, 1)

\* destructuring [a, b] = parts: a missing element is undefined
\* (no piece of a split holds a space, so this value is no piece)
Undefined == " undefined "
Elem(parts, k) == IF k <= Len(parts) THEN parts[k] ELSE Undefined

----------------------------------------------------------------------------
(* Constants of the two copies *)

\* the position selector of part_001
POSITIONS ==
    << "center center", "center top", "center bottom", "left center",
       "right center", "left top", "right top", "left bottom",
       "right bottom" >>

\* the position selector of script.js
POSITIONSScript ==
    << "center center", "top center", "bottom center", "center left",
       "center right" >>

Range(f) == { f[i] : i \in DOMAIN f }

----------------------------------------------------------------------------
(* Geometry Resolver *)

NoRect == [dx |-> Num(0), dy |-> Num(0), dw |-> Num(0), dh |-> Num(0),
           none |-> TRUE]

MkRect(x, y, w, h) == [dx |-> x, dy |-> y, dw |-> w, dh |-> h, none |-> FALSE]

\* px?.includes(k): false when px is undefined
OptIncludes(px, k) == IF px = Undefined THEN FALSE ELSE Includes(px, k)

\* script.js: computeDrawRect(sw, sh, dw, dh, fit, pos)
computeDrawRectScript(sw, sh, dw, dh, f, p) ==
    IF f = "auto" THEN MkRect(Num(0), Num(0), Num(sw), Num(sh))
    ELSE
    LET srcRatio == JsDiv(Num(sw), Num(sh))
        dstRatio == JsDiv(Num(dw), Num(dh))
        wide == JsGT(srcRatio, dstRatio)
        h == IF f = "cover"
             THEN IF wide THEN Num(dh) ELSE JsDiv(Num(dw), srcRatio)
             ELSE IF wide THEN JsDiv(Num(dw), srcRatio) ELSE Num(dh)
        w == IF f = "cover"
             THEN IF wide THEN RatMul(h, srcRatio) ELSE Num(dw)
             ELSE IF wide THEN Num(dw) ELSE RatMul(h, srcRatio)
        parts == Split(IF p = "" THEN "center center" ELSE p)
        px == Elem(parts, 1)
        py == Elem(parts, 2)
        x == IF OptIncludes(px, "right") THEN RatSub(Num(dw), w)
             ELSE IF OptIncludes(px, "left") THEN Num(0)
             ELSE JsDiv(RatSub(Num(dw), w), Num(2))
        y == IF OptIncludes(py, "bottom") THEN RatSub(Num(dh), h)
             ELSE IF OptIncludes(py, "top") THEN Num(0)
             ELSE JsDiv(RatSub(Num(dh), h), Num(2))
    IN  MkRect(x, y, w, h)

\* computeDrawRect with contain scaled by the larger factor
computeDrawRectContainOverflows(sw, sh, dw, dh, f, p) ==
    IF f = "contain"
    THEN LET c == computeDrawRectScript(sw, sh, dw, dh, "cover", p)
         IN  c
    ELSE computeDrawRectScript(sw, sh, dw, dh, f, p)

\* part_001: computeDrawRect(sw, sh, dw, dh, fit, pos)
computeDrawRect(sw, sh, dw, dh, f, p) ==
    IF f = "auto" THEN MkRect(Num(0), Num(0), Num(sw), Num(sh))
    ELSE
    LET srcRatio == JsDiv(Num(sw), Num(sh))
        dstRatio == JsDiv(Num(dw), Num(dh))
        wide == JsGT(srcRatio, dstRatio)
        w == IF f = "cover"
             THEN IF wide THEN Num(dw) ELSE RatMul(Num(dh), srcRatio)
             ELSE IF f = "contain"
             THEN IF wide THEN Num(dw) ELSE RatMul(Num(dh), srcRatio)
             ELSE Num(dw)
        h == IF f = "cover"
             THEN IF wide THEN JsDiv(Num(dw), srcRatio) ELSE Num(dh)
             ELSE IF f = "contain"
             THEN IF wide THEN JsDiv(Num(dw), srcRatio) ELSE Num(dh)
             ELSE Num(dh)
        parts == Split(p)
        xPos == Elem(parts, 1)
        yPos == Elem(parts, 2)
        x == IF xPos = "left" THEN Num(0)
             ELSE IF xPos = "right" THEN RatSub(Num(dw), w)
             ELSE JsDiv(RatSub(Num(dw), w), Num(2))
        y == IF yPos = "top" THEN Num(0)
             ELSE IF yPos = "bottom" THEN RatSub(Num(dh), h)
             ELSE JsDiv(RatSub(Num(dh), h), Num(2))
    IN  MkRect(x, y, w, h)


----------------------------------------------------------------------------
(* Contrast Estimator (the two copies agree line for line) *)

NoContrast ==
    [color |-> "none", ratio |-> NaN, passAA |-> FALSE, passAAA |-> FALSE,
     L_card |-> NaN, done |-> FALSE]

\* estimateMinContrastFromOverlay with AAA granted only above 7.0
estimateMinContrastStrictAAA(ov) ==
    LET Lbg == RatSub(Num(1), ov)
        Ltext == Num(1)
        ratio == JsDiv(RatAdd(Ltext, <<1, 20>>), RatAdd(Lbg, <<1, 20>>))
    IN  [color |-> "white", ratio |-> ratio,
         passAA |-> JsGE(ratio, <<9, 2>>),
         passAAA |-> JsGT(ratio, Num(7)),
         L_card |-> NaN, done |-> TRUE]

\* estimateMinContrastFromOverlay(overlay); the page text is white
estimateMinContrastFromOverlay(ov) ==
    LET Lbg == RatSub(Num(1), ov)
        Ltext == Num(1)
        ratio == JsDiv(RatAdd(Ltext, <<1, 20>>), RatAdd(Lbg, <<1, 20>>))
    IN  [color |-> "white", ratio |-> ratio,
         passAA |-> JsGE(ratio, <<9, 2>>),
         passAAA |-> JsGE(ratio, Num(7)),
         L_card |-> NaN, done |-> TRUE]

HexDigits == "0123456789abcdef"
HexDigitsUpper == "0123456789ABCDEF"

\* [a-f\d] under the i flag
IsHexDigit(c) ==
    \E k \in 1..16 : c = CharAt(HexDigits, k) \/ c = CharAt(HexDigitsUpper, k)

HexDigitValue(c) ==
    (CHOOSE k \in 1..16 :
        c = CharAt(HexDigits, k) \/ c = CharAt(HexDigitsUpper, k)) - 1

\* parseInt(pair, 16) of a two-digit group
ParseHexPair(s, at) ==
    16 * HexDigitValue(CharAt(s, at)) + HexDigitValue(CharAt(s, at + 1))

\* hexToRgb inside chooseTextColorForCard:
\* /^#?([a-f\d]{2})([a-f\d]{2})([a-f\d]{2})$/i, black when there is no match
hexToRgb(hex) ==
    LET body == IF Len(hex) > 0 /\ CharAt(hex, 1) = "#"
                THEN SubSeq(hex, 2, Len(hex)) ELSE hex
    IN  IF Len(body) = 6 /\ \A k \in 1..6 : IsHexDigit(CharAt(body, k))
        THEN [r |-> ParseHexPair(body, 1), g |-> ParseHexPair(body, 3),
              b |-> ParseHexPair(body, 5)]
        ELSE [r |-> 0, g |-> 0, b |-> 0]

\* Math.max(lo, Math.min(hi, x))
Clamp(x, lo, hi) == MathMax(lo, MathMin(hi, x))

\* chooseTextColorForCard blending the card the wrong way round
\* ((1 - a) * cardLuminance + a * L_under_max)
chooseTextColorBlendSwapped(ov, opacity, color) ==
    LET a == Clamp(opacity, Num(0), Num(1))
        L_under_max == RatSub(Num(1), Clamp(ov, Num(0), <<19, 20>>))
        rgb == hexToRgb(color)
        cardLuminance ==
            JsDiv(RatAdd(RatAdd(RatMul(<<299, 1000>>, Num(rgb.r)),
                                RatMul(<<587, 1000>>, Num(rgb.g))),
                         RatMul(<<114, 1000>>, Num(rgb.b))), Num(255))
        L_card == RatAdd(RatMul(RatSub(Num(1), a), cardLuminance),
                         RatMul(a, L_under_max))
        ratioWhite == JsDiv(<<21, 20>>, RatAdd(L_card, <<1, 20>>))
        ratioBlack == JsDiv(RatAdd(L_card, <<1, 20>>), <<1, 20>>)
        ratio == MathMax(ratioWhite, ratioBlack)
    IN  [color |-> IF JsGE(ratioWhite, ratioBlack) THEN "white" ELSE "black",
         ratio |-> ratio,
         passAA |-> JsGE(ratio, <<9, 2>>),
         passAAA |-> JsGE(ratio, Num(7)),
         L_card |-> L_card, done |-> TRUE]

\* chooseTextColorForCard(overlay, cardOpacity, cardColor)
chooseTextColorForCard(ov, opacity, color) ==
    LET a == Clamp(opacity, Num(0), Num(1))
        L_under_max == RatSub(Num(1), Clamp(ov, Num(0), <<19, 20>>))
        rgb == hexToRgb(color)
        cardLuminance ==
            JsDiv(RatAdd(RatAdd(RatMul(<<299, 1000>>, Num(rgb.r)),
                                RatMul(<<587, 1000>>, Num(rgb.g))),
                         RatMul(<<114, 1000>>, Num(rgb.b))), Num(255))
        L_card == RatAdd(RatMul(a, cardLuminance),
                         RatMul(RatSub(Num(1), a), L_under_max))
        ratioWhite == JsDiv(<<21, 20>>, RatAdd(L_card, <<1, 20>>))
        ratioBlack == JsDiv(RatAdd(L_card, <<1, 20>>), <<1, 20>>)
        ratio == MathMax(ratioWhite, ratioBlack)
    IN  [color |-> IF JsGE(ratioWhite, ratioBlack) THEN "white" ELSE "black",
         ratio |-> ratio,
         passAA |-> JsGE(ratio, <<9, 2>>),
         passAAA |-> JsGE(ratio, Num(7)),
         L_card |-> L_card, done |-> TRUE]

\* estimateCardContrast reporting white text whatever the card's luminance
estimateCardContrastWhiteText(ov, opacity, color) ==
    LET c == chooseTextColorForCard(ov, opacity, color)
        r == JsDiv(<<21, 20>>, RatAdd(c.L_card, <<1, 20>>))
    IN  [c EXCEPT !.color = "white", !.ratio = r,
                  !.passAA = JsGE(r, <<9, 2>>), !.passAAA = JsGE(r, Num(7))]

\* estimateCardContrast(overlay, cardOpacity, cardColor)
estimateCardContrast(ov, opacity, color) ==
    chooseTextColorForCard(ov, opacity, color)

\* the value an <input type="color"> delivers: "#rrggbb" in lower case
HexPair(n) == CharAt(HexDigits, (n \div 16) + 1) \o CharAt(HexDigits, (n % 16) + 1)
ColorInputValue(rgb) == "#" \o HexPair(rgb[1]) \o HexPair(rgb[2]) \o HexPair(rgb[3])

----------------------------------------------------------------------------
(* Card Generator *)

\* Math.random(): the j-th draw of a tape, a value k / RandGrid of [0, 1)
Draw(tape, j) == Rat((tape.start + j * tape.step) % RandGrid, RandGrid)

\* the tape left after n draws
Advance(tape, n) ==
    [start |-> (tape.start + n * tape.step) % RandGrid, step |-> tape.step]

\* the draws generateRandomCards(count) makes: three per card
DrawsOf(count) == IF count > 0 THEN 3 * count ELSE 0

\* Math.floor of a finite number
MathFloor(x) == x[1] \div x[2]

\* arr[i] of a JavaScript array: undefined outside 0 .. length - 1
ArrayAt(arr, i) == IF i \in 0..(Len(arr) - 1) THEN arr[i + 1] ELSE Undefined

\* uid(): the identifier made from one draw (its base-36 digits are not
\* spelled out; the identifier names the draw)
uid(r) == ToString(r[1]) \o "/" \o ToString(r[2])

\* part_001 generateRandomCards.cardTitles (script.js has the same list)
cardTitles ==
    << "AI Revolution",
       "Neural Networks",
       "Machine Learning",
       "Deep Learning",
       "Computer Vision",
       "Natural Language",
       "Robotics",
       "Automation",
       "Data Science",
       "Predictive Analytics",
       "Pattern Recognition",
       "Algorithm Design",
       "Quantum Computing",
       "Edge Computing",
       "Cloud AI",
       "AI Ethics",
       "Autonomous Systems",
       "Smart Cities",
       "Digital Transformation",
       "Tech Innovation",
       "Future of Work",
       "Human-AI Collaboration",
       "AI Safety",
       "Machine Consciousness" >>

\* part_001 generateRandomCards.cardContents
cardContents ==
    << "Explore cutting-edge developments in artificial intelligence and their impact on society.",
       "Discover how machine learning algorithms are transforming industries worldwide.",
       "Learn about the latest breakthroughs in neural network architectures and training methods.",
       "Understand the principles behind deep learning and its applications in real-world scenarios.",
       "Investigate computer vision techniques that enable machines to interpret visual information.",
       "Dive into natural language processing and how AI understands human communication." >>

\* script.js generateRandomCards.cardContents
cardContentsScript ==
    << "Explore cutting-edge developments in artificial intelligence and their impact on society.",
       "Discover how machine learning algorithms are transforming industries worldwide.",
       "Learn about the latest breakthroughs in neural network architectures and training methods.",
       "Understand the principles behind deep learning and its applications in real-world scenarios.",
       "Investigate computer vision techniques that enable machines to interpret visual information.",
       "Dive into natural language processing and how AI understands human communication.",
       "Examine the intersection of robotics and AI in creating intelligent autonomous systems.",
       "Analyze the role of automation in reshaping the future of work and productivity.",
       "Explore data science methodologies that drive insights and decision-making processes.",
       "Understand how predictive analytics is revolutionizing business strategy and planning." >>

\* the card pushed in iteration i of part_001's loop: the object literal
\* draws id, title, content in that order
RandomCard(tape, i) ==
    [id |-> uid(Draw(tape, 3 * i)),
     title |-> ArrayAt(cardTitles,
                 MathFloor(RatMul(Draw(tape, 3 * i + 1), Num(Len(cardTitles))))),
     content |-> ArrayAt(cardContents,
                 MathFloor(RatMul(Draw(tape, 3 * i + 2), Num(Len(cardContents)))))]

\* the loop "for (let i = from; i < count; i++) cards.push(...)"
RECURSIVE PushCards(_, _, _)
PushCards(tape, i, count) ==
    IF i < count THEN <<RandomCard(tape, i)>> \o PushCards(tape, i + 1, count)
    ELSE <<>>

\* generateRandomCards with the loop bound off by one (i <= count)
generateRandomCardsOneMore(count, tape) == PushCards(tape, 0, count + 1)

\* part_001 generateRandomCards(count), drawing from tape
generateRandomCards(count, tape) == PushCards(tape, 0, count)

\* the card pushed in iteration i of script.js's loop: titleIndex,
\* contentIndex, then uid()
RandomCardScript(tape, i) ==
    [id |-> uid(Draw(tape, 3 * i + 2)),
     title |-> ArrayAt(cardTitles,
                 MathFloor(RatMul(Draw(tape, 3 * i), Num(Len(cardTitles))))),
     content |-> ArrayAt(cardContentsScript,
                 MathFloor(RatMul(Draw(tape, 3 * i + 1),
                                  Num(Len(cardContentsScript)))))]

RECURSIVE PushCardsScript(_, _, _)
PushCardsScript(tape, i, count) ==
    IF i < count
    THEN <<RandomCardScript(tape, i)>> \o PushCardsScript(tape, i + 1, count)
    ELSE <<>>

\* script.js generateRandomCards(count), drawing from tape
generateRandomCardsScript(count, tape) == PushCardsScript(tape, 0, count)

Digits == "0123456789"

IsDigit(c) == \E k \in 1..10 : c = CharAt(Digits, k)

DigitValue(c) == (CHOOSE k \in 1..10 : c = CharAt(Digits, k)) - 1

\* the leading run of decimal digits of s from position i, as a number
RECURSIVE ParseDigits(_, _, _)
ParseDigits(s, i, acc) ==
    IF i <= Len(s) /\ IsDigit(CharAt(s, i))
    THEN ParseDigits(s, i + 1, 10 * acc + DigitValue(CharAt(s, i)))
    ELSE acc

\* parseInt(s): an optional sign and the leading digits; NaN without a digit
parseInt(s) ==
    LET neg == Len(s) > 0 /\ CharAt(s, 1) = "-"
        from == IF neg \/ (Len(s) > 0 /\ CharAt(s, 1) = "+") THEN 2 ELSE 1
    IN  IF from <= Len(s) /\ IsDigit(CharAt(s, from))
        THEN Num((IF neg THEN -1 ELSE 1) * ParseDigits(s, from, 0))
        ELSE NaN

\* x || 3 on a number: NaN and 0 are falsy
OrThree(x) == IF x = NaN \/ x[1] = 0 THEN 3 ELSE x[1]

----------------------------------------------------------------------------
(* Style Compositor: cssSnippet, and extractColors of the Raster Exporter *)

\* a background entry (BGItem); a field the entry lacks is Undefined
NoItem == [type |-> Undefined, src |-> Undefined, css |-> Undefined]

GradientItem(css) == [type |-> "css", src |-> Undefined, css |-> css]
ImageItem(src) == [type |-> "image", src |-> src, css |-> Undefined]

\* ${x} in a template literal
Interpolate(x) == IF x = Undefined THEN "undefined" ELSE x

\* two decimal digits
TwoDigits(n) == CharAt(Digits, (n \div 10) + 1) \o CharAt(Digits, (n % 10) + 1)

\* toFixed with one decimal
ToFixed1(x) ==
    LET neg == x[1] < 0
        ax == IF neg THEN RatNeg(x) ELSE x
        n == MathFloor(RatAdd(RatMul(ax, Num(10)), <<1, 2>>))
    IN  (IF neg THEN "-" ELSE "") \o ToString(n \div 10) \o "." \o
        CharAt(Digits, (n % 10) + 1)

\* x.toFixed(2) of a finite number: the sign, then |x| rounded to hundredths
\* (the larger candidate on a tie)
ToFixed2(x) ==
    LET neg == x[1] < 0
        ax == IF neg THEN RatNeg(x) ELSE x
        n == MathFloor(RatAdd(RatMul(ax, Num(100)), <<1, 2>>))
    IN  (IF neg THEN "-" ELSE "") \o ToString(n \div 100) \o "." \o
        TwoDigits(n % 100)

\* cssSnippet(item, fit, repeat, pos, overlay)
cssSnippet(it, f, rep, p, ov) ==
    LET bi == IF it.type = "image"
              THEN "url(" \o Interpolate(it.src) \o ")"
              ELSE IF it.css = Undefined \/ it.css = "" THEN "none"
              ELSE it.css
    IN  "/* Background */\n.selector {\n  background-image: " \o bi \o
        ";\n  background-size: " \o f \o
        ";\n  background-repeat: " \o (IF rep THEN "repeat" ELSE "no-repeat") \o
        ";\n  background-position: " \o p \o
        ";\n  position: relative;\n}\n/* Overlay */\n.selector::before {\n" \o
        "  content: \"\"; position: absolute; inset: 0;\n" \o
        "  background: rgba(0,0,0," \o ToFixed2(ov) \o
        ");\n  pointer-events: none;\n}"

\* the number of characters from position i on that are hexadecimal digits,
\* counted up to n
RECURSIVE HexRun(_, _, _)
HexRun(s, i, n) ==
    IF n = 0 \/ i > Len(s) \/ ~IsHexDigit(CharAt(s, i)) THEN 0
    ELSE 1 + HexRun(s, i + 1, n - 1)

\* the length /#(?:[0-9a-f]{3}|[0-9a-f]{6})/i matches at position i, or 0:
\* the alternatives are tried in the order written, the first that matches
\* is taken
HexMatchAt(s, i) ==
    IF i > Len(s) \/ CharAt(s, i) # "#" THEN 0
    ELSE IF HexRun(s, i + 1, 3) = 3 THEN 4
    ELSE IF HexRun(s, i + 1, 6) = 6 THEN 7
    ELSE 0

\* length of the run of characters from i on that are not in the set stop
RECURSIVE RunExcept(_, _, _)
RunExcept(s, i, stop) ==
    IF i > Len(s) \/ CharAt(s, i) \in stop THEN 0
    ELSE 1 + RunExcept(s, i + 1, stop)

IsLetter(c, lower, upper) == c = lower \/ c = upper

\* the length of "rgb" or "rgba" (any case) at position i when the character
\* open follows it, or 0: /rgba?/i followed by open
RgbHeadAt(s, i, open) ==
    IF /\ i + 3 <= Len(s)
       /\ IsLetter(CharAt(s, i), "r", "R")
       /\ IsLetter(CharAt(s, i + 1), "g", "G")
       /\ IsLetter(CharAt(s, i + 2), "b", "B")
    THEN IF /\ IsLetter(CharAt(s, i + 3), "a", "A")
            /\ i + 4 <= Len(s) /\ CharAt(s, i + 4) = open
         THEN 5
         ELSE IF CharAt(s, i + 3) = open THEN 4 ELSE 0
    ELSE 0

\* script.js: the length /rgba?\([^\)]+\)/i matches at position i, or 0
RgbaMatchAtScript(s, i) ==
    LET head == RgbHeadAt(s, i, "(")
        run == RunExcept(s, i + head, {")"})
    IN  IF head = 0 \/ run = 0 \/ i + head + run > Len(s) THEN 0
        ELSE head + run + 1

\* part_001: the length /rgba?\\([^\\)]+\\)/i matches at position i, or 0.
\* In this regex literal "\\" is a literal backslash and the parentheses are
\* a group: rgb, an optional a, a backslash, one or more characters other
\* than backslash and ")", a backslash.
RgbaMatchAt(s, i) ==
    LET head == RgbHeadAt(s, i, "\\")
        run == RunExcept(s, i + head, {"\\", ")"})
    IN  IF head = 0 \/ run = 0 \/ i + head + run > Len(s) THEN 0
        ELSE IF CharAt(s, i + head + run) = "\\" THEN head + run + 1
        ELSE 0

\* String.prototype.match with a global regex: every match, left to right,
\* the search resuming after each match. lens[i] is the length the regex
\* matches at position i (0: no match there).
RECURSIVE MatchesFrom(_, _, _)
MatchesFrom(s, from, lens) ==
    LET starts == { i \in from..Len(s) : lens[i] > 0 }
    IN  IF starts = {} THEN <<>>
        ELSE LET i == CHOOSE k \in starts : \A m \in starts : k <= m
             IN  <<SubSeq(s, i, i + lens[i] - 1)>> \o
                 MatchesFrom(s, i + lens[i], lens)

HexMatches(s) == MatchesFrom(s, 1, [i \in 1..Len(s) |-> HexMatchAt(s, i)])

RgbaMatches(s) == MatchesFrom(s, 1, [i \in 1..Len(s) |-> RgbaMatchAt(s, i)])

RgbaMatchesScript(s) ==
    MatchesFrom(s, 1, [i \in 1..Len(s) |-> RgbaMatchAtScript(s, i)])

\* xs.slice(0, n)
Slice(xs, n) == SubSeq(xs, 1, Min(n, Len(xs)))

\* part_001 extractColors(gradient)
extractColors(gradient) ==
    LET hex == HexMatches(gradient)
        rgba == RgbaMatches(gradient)
    IN  Slice(IF Len(hex) > 0 THEN hex ELSE rgba, 6)

\* script.js extractColors(gradient)
extractColorsScript(gradient) ==
    LET hex == HexMatches(gradient)
        rgba == RgbaMatchesScript(gradient)
    IN  Slice(IF Len(hex) > 0 THEN hex ELSE rgba, 6)

\* a gradient written the way the presets are: the function name, its first
\* argument, then the colour stops separated by ", "
RECURSIVE JoinStops(_, _)
JoinStops(xs, i) ==
    IF i > Len(xs) THEN ""
    ELSE ", " \o xs[i] \o JoinStops(xs, i + 1)

GradientCss(shape, xs) ==
    (IF shape = "radial" THEN "radial-gradient(circle at 10% 0%"
     ELSE "linear-gradient(135deg") \o JoinStops(xs, 1) \o ")"

\* no canvas gradient yet
NoGradient == [kind |-> "none", by |-> "none", stops |-> <<>>]

\* a colour stop of a canvas gradient: grad.addColorStop(offset, color)
ColorStop(offset, color) == [offset |-> offset, color |-> color]

UpperLetters == "ABCDEFGHIJKLMNOPQRSTUVWXYZ"
LowerLetters == "abcdefghijklmnopqrstuvwxyz"

\* s.toLowerCase() for text of ASCII characters, halving the text so that
\* the evaluation stays shallow
RECURSIVE ToLowerCase(_)
ToLowerCase(s) ==
    IF Len(s) = 0 THEN ""
    ELSE IF Len(s) = 1
    THEN LET k == {i \in 1..26 : CharAt(UpperLetters, i) = s}
         IN  IF k = {} THEN s ELSE CharAt(LowerLetters, CHOOSE i \in k : TRUE)
    ELSE LET half == Len(s) \div 2
         IN  ToLowerCase(SubSeq(s, 1, half))
               \o ToLowerCase(SubSeq(s, half + 1, Len(s)))

\* part_001 drawGradientBackground(ctx, css, W, H): what the canvas is
\* filled with
drawGradientBackground(css) ==
    LET cols == extractColors(css)
    IN  IF Len(cols) < 2
        THEN [kind |-> "solid", by |-> "tsx",
              stops |-> <<ColorStop(Num(0),
                                    IF cols = <<>> \/ cols[1] = ""
                                    THEN "black" ELSE cols[1])>>]
        ELSE [kind |-> "linear", by |-> "tsx",
              stops |-> <<ColorStop(Num(0), cols[1]),
                          ColorStop(Num(1), cols[2])>>]

\* script.js drawGradientBackground(ctx, css, W, H, blur); the css of an
\* entry has no outer white space for trim() to remove
drawGradientBackgroundScript(css) ==
    LET lower == ToLowerCase(css)
        cols == extractColorsScript(lower)
        spread == [i \in 1..Len(cols) |->
                     ColorStop(Rat(i - 1, Max(1, Len(cols) - 1)), cols[i])]
    IN  IF SubSeq(lower, 1, 15) = "linear-gradient"
        THEN [kind |-> "linear", by |-> "script", stops |-> spread]
        ELSE IF SubSeq(lower, 1, 15) = "radial-gradient"
        THEN [kind |-> "radial", by |-> "script", stops |-> spread]
        ELSE [kind |-> "solid", by |-> "script",
              stops |-> <<ColorStop(Num(0), "#000")>>]

----------------------------------------------------------------------------
(* Raster Exporter: exportBackgroundPNG                                     *)
(*                                                                          *)
(* The canvas is modelled by what its left and right halves show: "blank"   *)
(* (transparent), "black", or the entry last drawn there.  A clip region    *)
(* is the set of halves it lets a draw reach.                               *)

\* the names declared at the top level of part_001
ModuleScope ==
    { "React", "useState", "useEffect", "useMemo", "uid", "fileToDataURL",
      "PRESETS", "POSITIONS", "DEVICES", "LS_KEY", "computeFrameStyle",
      "normalizeItem", "normalizeItems", "buildBackgroundStyle", "cssSnippet",
      "downloadBlob", "estimateMinContrastFromOverlay",
      "chooseTextColorForCard", "estimateCardContrast", "exportBackgroundPNG",
      "drawImageBackground", "drawGradientBackground", "extractColors",
      "computeDrawRect", "loadImage", "generateRandomCards",
      "MAI_Background_Chooser_Demo", "Thumb" }

\* the names part_001's exportBackgroundPNG can resolve at line 317: its
\* parameter, the destructured options, its locals, and the module's names
ExportScope ==
    { "opts", "item", "compareA", "compareB", "showB", "fit", "repeat", "pos",
      "overlay", "blur", "width", "height", "canvas", "ctx", "drawItem",
      "drawCompare", "a", "b" } \cup ModuleScope

\* a string field in a condition
Truthy(x) == x # Undefined /\ x # ""

\* x ?? y and x || y on entries: NoItem stands for null and undefined, and
\* every entry is truthy
Coalesce(x, y) == IF x = NoItem THEN y ELSE x

\* a canvas half nothing was drawn on, and one filled with black
Blank == [type |-> "blank", src |-> Undefined, css |-> Undefined]
Black == [type |-> "black", src |-> Undefined, css |-> Undefined]

\* no call in flight
IdleExport ==
    [by |-> "none", pc |-> "idle", todo |-> <<>>, left |-> Blank,
     right |-> Blank, overlaid |-> FALSE, promise |-> "none",
     value |-> "none", width |-> 0, height |-> 0]

\* one drawItem call still to make, under the clip region set up for it
DrawTask(clip, it) == [clip |-> clip, it |-> it]

\* part_001 lines 314-330, reached only when slotA and slotB resolve: the
\* draws the branch makes.  No beginPath precedes either rect, so the second
\* clip is the union of both rectangles, cut to the canvas.
ExportTasks(it, cmpA, cmpB, sB, split) ==
    LET a == Coalesce(cmpA, it)
        b == IF sB THEN Coalesce(cmpB, it) ELSE a
        first == IF sB THEN {"left", "right"} ELSE {"left"}
        second == first \cup (IF sB THEN {"right"} ELSE {})
    IN  IF split THEN <<DrawTask(first, a), DrawTask(second, b)>>
        ELSE <<DrawTask({"left", "right"}, it)>>

\* script.js lines 403-433: the draws the branch makes
ExportTasksScript(it, cmpA, cmpB, sB) ==
    IF cmpA # NoItem \/ cmpB # NoItem
    THEN IF sB
         THEN <<DrawTask({"right"}, Coalesce(cmpB, it)),
                DrawTask({"left"}, Coalesce(cmpA, it))>>
         ELSE <<DrawTask({"left"}, Coalesce(cmpA, it)),
                DrawTask({"right"}, Coalesce(cmpB, it))>>
    ELSE <<DrawTask({"left", "right"}, it)>>

\* what drawItem does with an entry before any await: "skip" (no entry, or
\* neither branch applies), "load" (drawImageBackground awaits loadImage) or
\* "gradient" (drawGradientBackground paints at once)
drawItem(it) ==
    IF it = NoItem THEN "skip"
    ELSE IF it.type = "image" /\ Truthy(it.src) THEN "load"
    ELSE IF it.type = "css" /\ Truthy(it.css) THEN "gradient"
    ELSE "skip"

\* the canvas after an entry is painted under a clip region
Paint(e, task) ==
    [e EXCEPT !.left = IF "left" \in task.clip THEN task.it ELSE @,
              !.right = IF "right" \in task.clip THEN task.it ELSE @,
              !.todo = Tail(@),
              !.pc = "draw"]

\* the live preview (part_001 lines 1273-1285): the base layer shows cur
\* over the whole frame; when a compare slot is set a second layer with
\* compareStyle lies over it, clipped to the right half when showB and to
\* the left half otherwise.  A layer whose entry gives no background-image
\* lets the layer below show.
LivePreview(cur, cmpA, cmpB, sB, split) ==
    LET Layer(it) == IF drawItem(it) = "skip" THEN Blank ELSE it
        base == Layer(cur)
        over == Layer(IF sB THEN Coalesce(cmpB, cur) ELSE Coalesce(cmpA, cur))
        shown == IF split /\ over # Blank THEN over ELSE base
    IN  [left |-> IF sB THEN base ELSE shown,
         right |-> IF sB THEN shown ELSE base]

----------------------------------------------------------------------------
(* Viewport: DEVICES, computeFrameStyle and the size doExportPNG asks for   *)

\* a value that is a number or a string, with its typeof
NumVal(n) == [num |-> TRUE, n |-> n, s |-> ""]
StrVal(s) == [num |-> FALSE, n |-> 0, s |-> s]

\* part_001 DEVICES
DEVICES ==
    << [key |-> "fluid", w |-> StrVal("100%"), h |-> StrVal("100%")],
       [key |-> "mobile", w |-> NumVal(390), h |-> NumVal(844)],
       [key |-> "tablet", w |-> NumVal(820), h |-> NumVal(1180)],
       [key |-> "desktop", w |-> NumVal(1440), h |-> NumVal(900)] >>

\* script.js DEVICES
DEVICESScript ==
    << [key |-> "fluid", w |-> StrVal("100%"), h |-> StrVal("100%")],
       [key |-> "mobile-portrait", w |-> NumVal(390), h |-> NumVal(844)],
       [key |-> "mobile-landscape", w |-> NumVal(844), h |-> NumVal(390)],
       [key |-> "tablet", w |-> NumVal(820), h |-> NumVal(1180)],
       [key |-> "desktop", w |-> NumVal(1440), h |-> NumVal(900)] >>

DeviceKeys(devices) == { devices[i].key : i \in DOMAIN devices }

\* what computeFrameStyle returns, or that it threw
NoFrame == [threw |-> FALSE, width |-> "", height |-> ""]
FrameThrew == [threw |-> TRUE, width |-> "", height |-> ""]

\* computeFrameStyle with rotate ignored
computeFrameStyleNoSwap(devices, dev, rot) ==
    IF dev \notin DeviceKeys(devices) THEN FrameThrew
    ELSE LET d == devices[CHOOSE i \in DOMAIN devices : devices[i].key = dev]
         IN  [threw |-> FALSE,
              width |-> IF d.w.num THEN ToString(d.w.n) \o "px" ELSE "100vw",
              height |-> IF d.h.num THEN ToString(d.h.n) \o "px" ELSE "100vh"]

\* computeFrameStyle(device, rotate) over a copy's DEVICES: find returns
\* undefined for a key DEVICES lacks and reading dev.w then throws
computeFrameStyle(devices, dev, rot) ==
    IF dev \notin DeviceKeys(devices) THEN FrameThrew
    ELSE LET d == devices[CHOOSE i \in DOMAIN devices : devices[i].key = dev]
             swap == rot /\ d.w.num /\ d.h.num
             w == IF swap THEN d.h ELSE d.w
             h == IF swap THEN d.w ELSE d.h
         IN  [threw |-> FALSE,
              width |-> IF w.num THEN ToString(w.n) \o "px" ELSE "100vw",
              height |-> IF h.num THEN ToString(h.n) \o "px" ELSE "100vh"]

\* part_001 getDeviceCanvasStyle(), the style of the device canvas in every
\* render
getDeviceCanvasStyle(dev, rot) ==
    IF dev = "fluid" THEN [threw |-> FALSE, width |-> "100%", height |-> "100%"]
    ELSE computeFrameStyle(DEVICES, dev, rot)

\* s.replace(t, ""): the first occurrence of t removed
RemoveFirst(s, t) ==
    IF Includes(s, t)
    THEN LET i == CHOOSE k \in 1..(Len(s) - Len(t) + 1) :
                    /\ SubSeq(s, k, k + Len(t) - 1) = t
                    /\ \A j \in 1..(k - 1) : SubSeq(s, j, j + Len(t) - 1) # t
         IN  SubSeq(s, 1, i - 1) \o SubSeq(s, i + Len(t), Len(s))
    ELSE s

\* x || d on a number: NaN and 0 are falsy
OrNumber(x, d) == IF x = NaN \/ x[1] = 0 THEN d ELSE x[1]

\* part_001 doExportPNG: the width and height handed to exportBackgroundPNG
doExportPNGSize(frame) ==
    [width |-> OrNumber(parseInt(RemoveFirst(frame.width, "px")), 1440),
     height |-> OrNumber(parseInt(RemoveFirst(frame.height, "px")), 900)]

\* script.js doExportPNG: size.width and size.height are non-empty strings,
\* so the || "1440px" and || "900px" defaults are never taken
doExportPNGSizeScript(frame) ==
    [width |-> OrNumber(parseInt(frame.width), 1440),
     height |-> OrNumber(parseInt(frame.height), 900)]

----------------------------------------------------------------------------
(* Persistence: the storage key, the state initialisers and the saved state *)

\* a JSON value of a stored field, with its typeof: a missing field reads
\* as undefined
JUndef == [t |-> "undefined", n |-> <<0, 1>>, s |-> "", b |-> FALSE]
JNull == [t |-> "null", n |-> <<0, 1>>, s |-> "", b |-> FALSE]
JNum(r) == [t |-> "number", n |-> r, s |-> "", b |-> FALSE]
JStr(s) == [t |-> "string", n |-> <<0, 1>>, s |-> s, b |-> FALSE]
JBool(b) == [t |-> "boolean", n |-> <<0, 1>>, s |-> "", b |-> b]

\* a stored list: missing, an array, or a value of another type
JNoList == [t |-> "undefined", arr |-> <<>>]
JList(xs) == [t |-> "array", arr |-> xs]
JNotList(s) == [t |-> "string", arr |-> <<s>>]

\* v in a condition, !!v
JTruthy(v) ==
    IF v.t = "number" THEN v.n # NaN /\ v.n[1] # 0
    ELSE IF v.t = "string" THEN v.s # ""
    ELSE IF v.t = "boolean" THEN v.b
    ELSE FALSE

\* v ?? d
JCoalesce(v, d) == IF v.t \in {"undefined", "null"} THEN d ELSE v

\* a background entry of the items list (BGItem); src or css is Undefined
\* where the entry lacks it, favorite is a JSON value
Entry(id, name, type, src, css, favorite, origin) ==
    [id |-> id, name |-> name, type |-> type, src |-> src, css |-> css,
     favorite |-> favorite, origin |-> origin]

\* a null element of a stored items array
NullEntry ==
    Entry(Undefined, Undefined, "null", Undefined, Undefined, JNull, Undefined)

\* part_001 PRESETS (the ids are made by uid() when the module is evaluated)
PRESETS ==
    << Entry("preset-1", "Auro", "css", Undefined,
             "linear-gradient(135deg, #FF6B6B, #FFD166)", JUndef, "preset"),
       Entry("preset-2", "Celeste", "css", Undefined,
             "linear-gradient(135deg, #5A8DFF, #A0E7E5)", JUndef, "preset"),
       Entry("preset-3", "Midnight", "css", Undefined,
             "linear-gradient(135deg, #1D2B64, #F8CDDA)", JUndef, "preset"),
       Entry("preset-4", "Lush", "css", Undefined,
             "linear-gradient(135deg, #11998e, #38ef7d)", JUndef, "preset"),
       Entry("preset-5", "Kye", "css", Undefined,
             "linear-gradient(135deg, #8360c3, #2ebf91)", JUndef, "preset"),
       Entry("preset-6", "Orange", "css", Undefined,
             "linear-gradient(135deg, #fdc830, #f37335)", JUndef, "preset") >>

\* script.js PRESETS
PRESETSScript ==
    << Entry("preset-1", "Midnight Slate", "css", Undefined,
             "linear-gradient(135deg,#0b1020 0%,#111827 45%,#1f2937 100%)",
             JBool(FALSE), "preset"),
       Entry("preset-2", "Aurora", "css", Undefined,
             "linear-gradient(120deg,#0ea5e9,#22d3ee,#a78bfa)",
             JBool(FALSE), "preset"),
       Entry("preset-3", "Sunset Fade", "css", Undefined,
             "radial-gradient(120% 100% at 10% 0%,#ffedd5 0%,#fb7185 40%,#1f2937 100%)",
             JBool(FALSE), "preset"),
       Entry("preset-4", "Graphite", "css", Undefined,
             "linear-gradient(180deg,#0f172a 0%,#0b1220 50%,#060a14 100%)",
             JBool(FALSE), "preset"),
       Entry("preset-5", "Deep Teal", "css", Undefined,
             "linear-gradient(160deg,#0f766e 0%,#0e7490 50%,#0b132b 100%)",
             JBool(FALSE), "preset") >>

\* normalizeItem with the favorite field left as it is
normalizeItemKeepsFavorite(x) == x

\* normalizeItem(x): { ...x, favorite: x.favorite ?? false }
normalizeItem(x) == [x EXCEPT !.favorite = JCoalesce(@, JBool(FALSE))]

\* xs.filter(Boolean): the null elements are dropped
FilterBoolean(xs) == SelectSeq(xs, LAMBDA x : x # NullEntry)

\* normalizeItems(xs)
normalizeItems(xs) ==
    LET kept == FilterBoolean(xs)
    IN  [i \in 1..Len(kept) |-> normalizeItem(kept[i])]

\* the value of the storage key, modelled by what JSON.parse makes of it:
\* kind is "absent" (getItem returns null), "text" (JSON.parse throws),
\* "null" (parses to null) or "object"; an object holds each field of
\* ExportState or lacks it; by names the handler that wrote the value
Storage(kind, by, its, idx, f, rep, p, ov, bl, dev, rot, op, dark, col, cnt, cards) ==
    [kind |-> kind, by |-> by, items |-> its, index |-> idx, fit |-> f,
     repeat |-> rep, pos |-> p, overlay |-> ov, blur |-> bl, device |-> dev,
     rotate |-> rot, cardOpacity |-> op, darkMode |-> dark, cardColor |-> col,
     cardCount |-> cnt, generatedCards |-> cards]

\* a value of the key with no field
Fieldless(kind) ==
    Storage(kind, "none", JNoList, JUndef, JUndef, JUndef, JUndef, JUndef,
            JUndef, JUndef, JUndef, JUndef, JUndef, JUndef, JUndef, JNoList)

\* JSON.parse(localStorage.getItem(LS_KEY) || "{}") throws, or reading a
\* field of its result does
ParseThrows(st) == st.kind \in {"text", "null"}

\* v || d for a field that holds a string when it holds anything truthy
OrString(v, d) == IF JTruthy(v) THEN v.s ELSE d

\* typeof v === "number" ? v : d
NumberOr(v, d) == IF v.t = "number" THEN v.n ELSE d

\* useState items: a stored value that is no array makes normalizeItems
\* throw inside the try, and the presets are used
initItems(st, presets) ==
    IF st.kind = "object" /\ st.items.t = "array"
    THEN normalizeItems(st.items.arr)
    ELSE normalizeItems(presets)

\* useState index: Math.min(Math.max(0, p.index || 0),
\*                          Math.max(0, (p.items || PRESETS).length - 1))
initIndex(st, presets) ==
    IF st.kind # "object" THEN 0
    ELSE LET i == IF JTruthy(st.index) THEN MathFloor(st.index.n) ELSE 0
             len == IF st.items.t = "array" THEN Len(st.items.arr)
                    ELSE IF st.items.t = "string" /\ st.items.arr[1] # ""
                    THEN Len(st.items.arr[1])
                    ELSE Len(presets)
         IN  Min(Max(0, i), Max(0, len - 1))

initFit(st) == IF ParseThrows(st) THEN "cover" ELSE OrString(st.fit, "cover")

initRepeat(st) == IF ParseThrows(st) THEN FALSE ELSE JTruthy(st.repeat)

initPos(st) ==
    IF ParseThrows(st) THEN "center center"
    ELSE OrString(st.pos, "center center")

initOverlay(st) ==
    IF ParseThrows(st) THEN <<7, 20>> ELSE NumberOr(st.overlay, <<7, 20>>)

initBlur(st) == IF ParseThrows(st) THEN Num(0) ELSE NumberOr(st.blur, Num(0))

\* the stored device key with no migration
initDeviceAsStored(st) ==
    IF ParseThrows(st) THEN "fluid" ELSE OrString(st.device, "fluid")

\* part_001 useState device: the mobile-portrait and mobile-landscape keys
\* of the other version become mobile
initDevice(st) ==
    IF ParseThrows(st) THEN "fluid"
    ELSE LET deviceKey ==
               IF st.device.t = "string"
                    /\ st.device.s \in {"mobile-portrait", "mobile-landscape"}
               THEN JStr("mobile") ELSE st.device
         IN  OrString(deviceKey, "fluid")

\* script.js useState device: the mobile key of the other version becomes
\* mobile-portrait
initDeviceScript(st) ==
    IF ParseThrows(st) THEN "fluid"
    ELSE LET deviceKey ==
               IF st.device.t = "string" /\ st.device.s = "mobile"
               THEN JStr("mobile-portrait") ELSE st.device
         IN  OrString(deviceKey, "fluid")

initRotate(st) == IF ParseThrows(st) THEN FALSE ELSE JTruthy(st.rotate)

initCardOpacity(st) ==
    IF ParseThrows(st) THEN <<2, 25>> ELSE NumberOr(st.cardOpacity, <<2, 25>>)

initDarkMode(st) == IF ParseThrows(st) THEN FALSE ELSE JTruthy(st.darkMode)

\* useState cardColor: p.cardColor || (p.darkMode ? "#000000" : "#ffffff")
initCardColor(st) ==
    IF ParseThrows(st) THEN "#000000"
    ELSE OrString(st.cardColor,
                  IF JTruthy(st.darkMode) THEN "#000000" ELSE "#ffffff")

\* JSON.stringify of a number: NaN and the infinities are written as null
JsonNumber(r) == IF IsFinite(r) THEN JNum(r) ELSE JNull

\* JSON.parse(JSON.stringify(state)) of the ExportState the auto-save
\* effect, part_001's S and J keys and its Export JSON button build
SavedState(by, its, idx, f, rep, p, ov, bl, dev, rot, op, dark, col, cnt, cards) ==
    Storage("object", by, JList(normalizeItems(its)), JsonNumber(Num(idx)),
            JStr(f), JBool(rep), JStr(p), JsonNumber(ov), JsonNumber(bl),
            JStr(dev), JBool(rot), JsonNumber(op), JBool(dark), JStr(col),
            JsonNumber(Num(cnt)), JList(cards))

\* the ExportState script.js's S key builds: no cardColor, cardCount or
\* generatedCards
SavedStateKeyScript(by, its, idx, f, rep, p, ov, bl, dev, rot, op, dark) ==
    Storage("object", by, JList(normalizeItems(its)), JsonNumber(Num(idx)),
            JStr(f), JBool(rep), JStr(p), JsonNumber(ov), JsonNumber(bl),
            JStr(dev), JBool(rot), JsonNumber(op), JBool(dark), JUndef,
            JUndef, JNoList)

\* the ExportState script.js's J key and Export JSON button build: no
\* darkMode, cardColor, cardCount or generatedCards
ExportedStateScript(by, its, idx, f, rep, p, ov, bl, dev, rot, op) ==
    Storage("object", by, JList(normalizeItems(its)), JsonNumber(Num(idx)),
            JStr(f), JBool(rep), JStr(p), JsonNumber(ov), JsonNumber(bl),
            JStr(dev), JBool(rot), JsonNumber(op), JUndef, JUndef, JUndef,
            JNoList)

\* the component before it is mounted: by names the copy, op and arg the
\* handler that ran last and its argument (files for addUploads), edits and
\* loads count the
\* handlers and the page loads so far, saved is the state the component was
\* in when it last wrote the storage key
IdleApp ==
    [by |-> "none", phase |-> "unmounted", edits |-> 0, loads |-> 0,
     op |-> "none", arg |-> "", files |-> <<>>,
     saved |-> Fieldless("absent")]

\* the component after the handler op has run with the argument arg; a
\* specification that mounts no component leaves the record alone
Edited(a, op, arg) ==
    IF a.phase = "unmounted" THEN a
    ELSE [a EXCEPT !.edits = @ + 1, !.op = op, !.arg = arg]

\* no auto-save timeout is pending
NoTimer == [pending |-> FALSE, state |-> Fieldless("absent")]

\* the timeout the auto-save effect sets: in 250 ms its callback writes st
Scheduled(st) == [pending |-> TRUE, state |-> st]

\* the dependency list of the auto-save effect (sidebarCollapsed is not part
\* of the model)
SaveDeps ==
    <<items, index, fit, repeat, pos, overlay, blur, device, rotate,
      cardOpacity, darkMode, cardColor, cardCount, generatedCards>>

\* the auto-save effect after a handler's render: when a dependency has
\* changed the cleanup clears the pending timeout and the effect sets a new
\* one for the state of the new render; otherwise the timeout is left alone
AutoSaveEffect ==
    saveTimer' =
      IF app'.phase = "loaded" /\ SaveDeps' # SaveDeps
      THEN Scheduled(SavedState("autosave", items', index', fit', repeat',
                                pos', overlay', blur', device', rotate',
                                cardOpacity', darkMode', cardColor',
                                cardCount', generatedCards'))
      ELSE saveTimer

\* the stored value with the fields of S removed
Without(st, S) ==
    [st EXCEPT
       !.items = IF "items" \in S THEN JNoList ELSE @,
       !.index = IF "index" \in S THEN JUndef ELSE @,
       !.fit = IF "fit" \in S THEN JUndef ELSE @,
       !.repeat = IF "repeat" \in S THEN JUndef ELSE @,
       !.pos = IF "pos" \in S THEN JUndef ELSE @,
       !.overlay = IF "overlay" \in S THEN JUndef ELSE @,
       !.blur = IF "blur" \in S THEN JUndef ELSE @,
       !.device = IF "device" \in S THEN JUndef ELSE @,
       !.rotate = IF "rotate" \in S THEN JUndef ELSE @,
       !.cardOpacity = IF "cardOpacity" \in S THEN JUndef ELSE @,
       !.darkMode = IF "darkMode" \in S THEN JUndef ELSE @,
       !.cardColor = IF "cardColor" \in S THEN JUndef ELSE @,
       !.cardCount = IF "cardCount" \in S THEN JUndef ELSE @,
       !.generatedCards = IF "generatedCards" \in S THEN JNoList ELSE @]

----------------------------------------------------------------------------
(* The items list: addUploads, removeItem, toggleFavorite, cycle            *)
(* (the two copies agree line for line)                                     *)

\* a file of the file input: its name, its MIME type ("" where the browser
\* knows none) and whether FileReader can read it
File(name, type, readable) ==
    [name |-> name, type |-> type, readable |-> readable]

EndsWith(s, t) == Len(s) >= Len(t) /\ SubSeq(s, Len(s) - Len(t) + 1, Len(s)) = t

StartsWith(s, t) == Len(s) >= Len(t) /\ SubSeq(s, 1, Len(t)) = t

\* /\.(avif|webp|jpe?g|png|gif|bmp|svg)$/i.test(name), for names whose
\* extension is written in one case
ImageSuffixes ==
    {".avif", ".webp", ".jpg", ".jpeg", ".png", ".gif", ".bmp", ".svg",
     ".AVIF", ".WEBP", ".JPG", ".JPEG", ".PNG", ".GIF", ".BMP", ".SVG"}
nameOk(f) == \E t \in ImageSuffixes : EndsWith(f.name, t)

\* typeOk with every declared type taken for an image
typeOkAnyDeclared(f) == f.type # ""

\* f.type ? f.type.startsWith("image/") : false
typeOk(f) == f.type # "" /\ StartsWith(f.type, "image/")

\* fileToDataURL(f) resolved: the data URL names the file
fileToDataURL(f) == "data:" \o f.type \o ";base64," \o f.name

\* the adds list addUploads builds from the files: a file that is no image
\* is skipped, a file that cannot be read is skipped by the empty catch,
\* every other file takes an id from the next draw of the tape
RECURSIVE addsOf(_, _)
addsOf(files, tape) ==
    IF files = <<>> THEN <<>>
    ELSE LET f == Head(files)
         IN  IF (typeOk(f) \/ nameOk(f)) /\ f.readable
             THEN <<Entry(uid(Draw(tape, 0)), f.name, "image",
                          fileToDataURL(f), Undefined, JBool(FALSE),
                          "upload")>>
                    \o addsOf(Tail(files), Advance(tape, 1))
             ELSE addsOf(Tail(files), tape)

\* removeItem with the presets kept
removeItemKeepsPresets(xs, id) ==
    SelectSeq(xs, LAMBDA x : x.id # id \/ x.origin = "preset")

\* removeItem(id): prev.filter((x) => x?.id !== id)
removeItem(xs, id) == SelectSeq(xs, LAMBDA x : x.id # id)

\* toggleFavorite(id): the entry with the id gets !(x.favorite ?? false),
\* every other entry is normalised
toggleFavorite(xs, id) ==
    [i \in 1..Len(xs) |->
       IF xs[i].id = id
       THEN [xs[i] EXCEPT
               !.favorite = JBool(~JTruthy(JCoalesce(@, JBool(FALSE))))]
       ELSE normalizeItem(xs[i])]

\* visibleThumbnails(): the favourites, then the other uploads, then the
\* other presets
visibleThumbnails(xs) ==
    LET normalized == normalizeItems(xs)
        fav(x) == JTruthy(JCoalesce(x.favorite, JBool(FALSE)))
    IN  SelectSeq(normalized, fav)
          \o SelectSeq(normalized, LAMBDA x : ~fav(x) /\ x.origin = "upload")
          \o SelectSeq(normalized, LAMBDA x : ~fav(x) /\ x.origin = "preset")

\* xs.findIndex((x) => x?.id === id): -1 when no entry has the id
findIndex(xs, id) ==
    IF id \in {xs[i].id : i \in 1..Len(xs)}
    THEN (CHOOSE i \in 1..Len(xs) :
            xs[i].id = id /\ \A j \in 1..(i - 1) : xs[j].id # id) - 1
    ELSE -1

\* the ids of a list of entries
Ids(xs) == {xs[i].id : i \in 1..Len(xs)}

\* cur = items[index] ?? items[0]; NullEntry where the list is empty
Cur(xs, i) ==
    IF i + 1 \in 1..Len(xs) THEN xs[i + 1]
    ELSE IF xs # <<>> THEN xs[1] ELSE NullEntry

\* useState<number | null>(null): the value null of a compare slot
NoSlot == -1

\* compareA = slotA != null ? items[slotA] : null, and compareB alike;
\* NullEntry where the slot is null or items has no element at the slot
compareAt(xs, slot) ==
    IF slot # NoSlot /\ slot + 1 \in 1..Len(xs) THEN xs[slot + 1]
    ELSE NullEntry

\* what the render that made the keydown listener saw of the state the
\* listener's dependency list leaves out
KeyScope(sB, sA, sBslot, i) ==
    [showB |-> sB, slotA |-> sA, slotB |-> sBslot, index |-> i]

\* doExportPNG's call of exportBackgroundPNG: who started it, and the
\* showB, slots and compare entries of the render whose doExportPNG ran
PngCall(by, scope, xs) ==
    [by |-> by, showB |-> scope.showB, slotA |-> scope.slotA,
     slotB |-> scope.slotB, compareA |-> compareAt(xs, scope.slotA),
     compareB |-> compareAt(xs, scope.slotB)]

NoCall == PngCall("none", KeyScope(FALSE, NoSlot, NoSlot, 0), <<>>)

\* addUploads' loop up to its next await: the files that are no images are
\* passed over (continue)
RECURSIVE SkipOthers(_)
SkipOthers(files) ==
    IF files = <<>> THEN <<>>
    ELSE IF typeOk(Head(files)) \/ nameOk(Head(files)) THEN files
    ELSE SkipOthers(Tail(files))

\* an addUploads call: list is the FileList it was given, files what its
\* loop has yet to read (the head is the file being read), adds its adds
\* array, done whether it has returned; prev is the items list and seen the
\* calls in flight when it was made, ticks the places of its reads among all
\* the reads
Batch(list, files, adds, prev, seen, ticks) ==
    [list |-> list, files |-> files, adds |-> adds, done |-> files = <<>>,
     prev |-> prev, seen |-> seen, ticks |-> ticks]

\* the entry addUploads pushes for the file f read to a data URL
pushedEntry(f, tape) ==
    Entry(uid(Draw(tape, 0)), f.name, "image", fileToDataURL(f), Undefined,
          JBool(FALSE), "upload")

\* setItems((prev) => normalizeItems([...adds, ...prev])) applied to the
\* list prev the update finds; captured is the list the call was made in
prependAddsToCaptured(adds, prev, captured) == normalizeItems(adds \o captured)
prependAdds(adds, prev, captured) == normalizeItems(adds \o prev)

----------------------------------------------------------------------------
(* Input sets *)

Fits == {"cover", "contain", "auto"}

\* every x-first two-keyword anchor
TwoKeywordAnchors ==
    { h \o " " \o v : h \in {"left", "center", "right"},
                      v \in {"top", "center", "bottom"} }

\* the anchors a copy's position selector offers, and the two-keyword ones
AnchorsOf(copy) ==
    IF copy = "script" THEN Range(POSITIONSScript) \cup TwoKeywordAnchors
    ELSE Range(POSITIONS) \cup TwoKeywordAnchors

Anchors == AnchorsOf("tsx") \cup AnchorsOf("script")

\* overlay values: the slider's track and stored values on either side of it
SliderOverlays == { Rat(k, 100) : k \in 0..95 }
Overlays == { Rat(k, 100) : k \in (0 - OverlayBeyond)..(95 + OverlayBeyond) }

\* card opacities: a grid over [0, 1], the default 0.08, and stored values
\* one grid step outside
Opacities == { Rat(k, OpacityGrid) : k \in (0 - 1)..(OpacityGrid + 1) } \cup {<<2, 25>>}

\* card colours picked in the colour input
CardColours ==
    { <<0, 0, 0>>, <<255, 255, 255>>, <<255, 0, 0>>, <<0, 255, 0>>,
      <<0, 0, 255>>, <<128, 128, 128>>, <<255, 107, 107>>, <<17, 153, 142>> }

\* states of the random source: a next draw and a step between
\* consecutive draws
Tapes == [start : 0..(RandGrid - 1), step : 0..(RandSteps - 1)]

\* texts the card-count input (type number, min 1, max 12) can hold: typed
\* integers inside and outside 1 .. 12, a decimal, and the empty field
CountTexts ==
    { ToString(n) : n \in (1 - CountBeyond - 1)..(12 + CountBeyond) }
        \cup {"", "2.5"}

\* colour stops a gradient is written with, by notation
Palette(family) ==
    IF family = "hex3" THEN <<"#000", "#111", "#fa0", "#0AF">>
    ELSE IF family = "hex6" THEN <<"#FF6B6B", "#FFD166", "#11998e", "#1f2937">>
    ELSE IF family = "rgb"
    THEN <<"rgb(255,0,0)", "rgba(0,0,0,0.5)", "rgb(0, 128, 255)">>
    ELSE <<"#fa0", "rgb(255,0,0)", "#11998e">>

StopFamilies == {"hex3", "hex6", "rgb", "mixed"}

\* the first n stops of a family, its palette repeated as often as needed
StopsOf(family, n) ==
    [i \in 1..n |-> Palette(family)[((i - 1) % Len(Palette(family))) + 1]]

\* overlay values the snippet is rendered with
SnippetOverlays == {Num(0), <<7, 20>>, <<19, 20>>, <<1, 3>>}

\* image sources: data URLs of uploads
ImageSources == {"data:image/png;base64,aa", "data:image/png;base64,bb"}

\* entries handed to the exporter: two gradients and two uploads
ExportEntries ==
    { GradientItem("linear-gradient(135deg, #FF6B6B, #FFD166)"),
      GradientItem("radial-gradient(circle at 10% 0%, #000, #111)") }
        \cup { ImageItem(src) : src \in ImageSources }

\* the fields an initialiser reads from the stored object
StoredFields ==
    { "items", "index", "fit", "repeat", "pos", "overlay", "blur", "device",
      "rotate", "cardOpacity", "darkMode", "cardColor", "cardCount",
      "generatedCards" }

\* entries of a stored items list: an upload, a preset saved by a version
\* that wrote no favorite field, and a favourite preset
UploadEntry ==
    Entry("u1", "a.png", "image", "data:image/png;base64,aa", Undefined,
          JBool(FALSE), "upload")
LegacyPresetEntry ==
    Entry("p1", "Auro", "css", Undefined,
          "linear-gradient(135deg, #FF6B6B, #FFD166)", JUndef, "preset")
FavoritePresetEntry ==
    Entry("p2", "Lush", "css", Undefined,
          "linear-gradient(135deg, #11998e, #38ef7d)", JBool(TRUE), "preset")

\* a card of a stored generatedCards list
StoredCard ==
    [id |-> "5/24", title |-> cardTitles[3], content |-> cardContents[2]]

\* a complete stored state, none of its values a default
BaseSaved ==
    Storage("object", "none",
            JList(<<UploadEntry, LegacyPresetEntry, FavoritePresetEntry>>),
            JNum(Num(1)), JStr("contain"), JBool(TRUE), JStr("left top"),
            JNum(<<1, 2>>), JNum(Num(4)), JStr("tablet"), JBool(TRUE),
            JNum(<<1, 2>>), JBool(TRUE), JStr("#ff0000"), JNum(Num(5)),
            JList(<<StoredCard>>))

\* device keys a stored state can hold: the keys of both versions, an
\* unknown key, the empty string
StoredDeviceKeys ==
    DeviceKeys(DEVICES) \cup DeviceKeys(DEVICESScript) \cup {"phone", ""}

\* the complete stored state with one field of another value or type
StoredVariants ==
    { [BaseSaved EXCEPT !.device = JStr(k), !.rotate = r] :
        k \in StoredDeviceKeys, r \in {JBool(TRUE), JBool(FALSE), JUndef} }
    \cup { [BaseSaved EXCEPT !.device = v] : v \in {JNull, JNum(Num(0))} }
    \cup { [BaseSaved EXCEPT !.overlay = v] :
             v \in {JNull, JStr("0.5"), JBool(TRUE), JNum(<<-11, 100>>),
                    JNum(Num(2))} }
    \cup { [BaseSaved EXCEPT !.blur = v] : v \in {JNull, JStr("4")} }
    \cup { [BaseSaved EXCEPT !.cardOpacity = v] :
             v \in {JNull, JStr("0.5"), JNum(Num(2))} }
    \cup { [BaseSaved EXCEPT !.fit = v] :
             v \in {JNull, JStr(""), JNum(Num(0)), JStr("stretch")} }
    \cup { [BaseSaved EXCEPT !.pos = v] :
             v \in {JNull, JStr(""), JBool(FALSE), JStr("middle")} }
    \cup { [BaseSaved EXCEPT !.repeat = v] :
             v \in {JNull, JStr("yes"), JNum(Num(0)), JNum(Num(1))} }
    \cup { [BaseSaved EXCEPT !.rotate = v] :
             v \in {JNull, JStr("yes"), JNum(Num(0))} }
    \cup { [BaseSaved EXCEPT !.index = v] :
             v \in {JNull, JNum(Num(-1)), JNum(Num(0)), JNum(Num(7))} }
    \cup { [BaseSaved EXCEPT !.cardColor = v] :
             v \in {JNull, JStr(""), JStr("red")} }
    \cup { [BaseSaved EXCEPT !.items = v] :
             v \in {JNotList("abc"), JNotList(""), JList(<<>>),
                    JList(<<NullEntry, LegacyPresetEntry>>)} }

\* values of the storage key the component is loaded from
LoadContents ==
    { Fieldless(k) : k \in {"absent", "text", "null", "object"} }
        \cup { Without(BaseSaved, S) : S \in SUBSET StoredFields }
        \cup StoredVariants

\* an entry stored with favorite: null
NullFavoriteEntry ==
    Entry("p3", "Kye", "css", Undefined,
          "linear-gradient(135deg, #8360c3, #2ebf91)", JNull, "preset")

\* values of the storage key a session starts from: no key, and states of
\* an earlier session whose entries have, lack or null the favorite field,
\* one of them with a null element in its list
SessionContents ==
    { Fieldless("absent"),
      BaseSaved,
      [BaseSaved EXCEPT
         !.items = JList(<<NullEntry, LegacyPresetEntry, NullFavoriteEntry>>),
         !.index = JNum(Num(2)), !.device = JStr("fluid")] }

\* selections of the file input: an image, a text file with an image named
\* by its extension only, an image that cannot be read, two images around a
\* file whose name only holds an image extension
FileLists ==
    { <<File("b.png", "image/png", TRUE)>>,
      <<File("notes.txt", "text/plain", TRUE), File("c.JPG", "", TRUE)>>,
      <<File("d.gif", "image/gif", FALSE)>>,
      <<File("e.webp", "image/webp", TRUE), File("f.png.txt", "", TRUE),
        File("g.svg", "application/octet-stream", TRUE)>> }

\* values of the fit select
FitOptions == {"cover", "contain", "auto"}

----------------------------------------------------------------------------
(* Values of the state each specification leaves alone *)

FitPosIdle ==
    /\ fit = "cover"
    /\ pos = "center center"

GeomIdle ==
    /\ img = [width |-> 1, height |-> 1]
    /\ W = 1
    /\ H = 1
    /\ rect = NoRect
    /\ rectBy = "none"

OverlayIdle == overlay = <<7, 20>>

ContrastIdle ==
    /\ cardOpacity = <<2, 25>>
    /\ cardRGB = <<255, 255, 255>>
    /\ cardColor = "#ffffff"
    /\ contrastPage = NoContrast
    /\ contrastCard = NoContrast

CardIdle ==
    /\ cardCount = 3
    /\ generatedCards = generateRandomCards(6, [start |-> 0, step |-> 0])
    /\ batchCount = 6
    /\ batchBy = "tsx"
    /\ rng = [start |-> 0, step |-> 0]

CssIdle ==
    /\ item = NoItem
    /\ stops = <<>>
    /\ repeat = FALSE
    /\ snippet = ""
    /\ colors = <<>>
    /\ colorsBy = "none"
    /\ grad = NoGradient

ExportIdle ==
    /\ compareA = NoItem
    /\ compareB = NoItem
    /\ showB = FALSE
    /\ decodes = {}
    /\ exp = IdleExport

ViewIdle ==
    /\ device = "fluid"
    /\ rotate = FALSE
    /\ frameStyle = NoFrame

SlotIdle ==
    /\ slotA = NoSlot
    /\ slotB = NoSlot
    /\ keyScope = KeyScope(FALSE, NoSlot, NoSlot, 0)
    /\ pngCall = NoCall

SessIdle ==
    /\ items = <<>>
    /\ index = 0
    /\ blur = Num(0)
    /\ darkMode = FALSE
    /\ ls = Fieldless("absent")
    /\ app = IdleApp
    /\ download = Fieldless("absent")
    /\ SlotIdle
    /\ saveTimer = NoTimer
    /\ uploads = <<>>

----------------------------------------------------------------------------
(* Specification of the Geometry Resolver: the inputs are drawn in the      *)
(* initial state, one action per copy applies computeDrawRect as            *)
(* drawImageBackground calls it.                                            *)

GeomInit ==
    /\ img \in [width : 1..MaxDim, height : 1..MaxDim]
    /\ W \in 1..MaxDim
    /\ H \in 1..MaxDim
    /\ fit \in Fits
    /\ pos \in Anchors
    /\ rect = NoRect
    /\ rectBy = "none"
    /\ OverlayIdle
    /\ ContrastIdle
    /\ CardIdle
    /\ CssIdle
    /\ ExportIdle
    /\ ViewIdle
    /\ SessIdle

\* part_001 drawImageBackground, no-repeat branch
DrawRectTsx ==
    /\ rectBy = "none"
    /\ rect' = computeDrawRect(img.width, img.height, W, H, fit, pos)
    /\ rectBy' = "tsx"
    /\ UNCHANGED <<img, W, H, fit, pos, contrastVars, cardVars, cssVars, exportVars, viewVars, sessVars>>

\* script.js drawImageBackground, no-repeat branch
DrawRectScript ==
    /\ rectBy = "none"
    /\ rect' = computeDrawRectScript(img.width, img.height, W, H, fit, pos)
    /\ rectBy' = "script"
    /\ UNCHANGED <<img, W, H, fit, pos, contrastVars, cardVars, cssVars, exportVars, viewVars, sessVars>>

GeomNext == DrawRectTsx \/ DrawRectScript

SpecGeom == GeomInit /\ [][GeomNext]_vars

\* the Geometry Resolver on degenerate inputs: a source or destination
\* dimension is zero
GeomZeroInit ==
    /\ img \in [width : 0..MaxDim, height : 0..MaxDim]
    /\ W \in 0..MaxDim
    /\ H \in 0..MaxDim
    /\ 0 \in {img.width, img.height, W, H}
    /\ fit \in Fits
    /\ pos \in Anchors
    /\ rect = NoRect
    /\ rectBy = "none"
    /\ OverlayIdle
    /\ ContrastIdle
    /\ CardIdle
    /\ CssIdle
    /\ ExportIdle
    /\ ViewIdle
    /\ SessIdle

SpecGeomZero == GeomZeroInit /\ [][GeomNext]_vars

----------------------------------------------------------------------------
(* Specification of the Contrast Estimator: overlay, card opacity and card  *)
(* colour are drawn in the initial state (slider values and stored values   *)
(* outside the sliders' tracks); the two memoised estimates are computed.   *)

ContrastInit ==
    /\ overlay \in Overlays
    /\ cardOpacity \in Opacities
    /\ cardRGB \in CardColours
    /\ cardColor = ColorInputValue(cardRGB)
    /\ contrastPage = NoContrast
    /\ contrastCard = NoContrast
    /\ FitPosIdle
    /\ GeomIdle
    /\ CardIdle
    /\ CssIdle
    /\ ExportIdle
    /\ ViewIdle
    /\ SessIdle

\* useMemo contrastPage
EstimatePage ==
    /\ ~contrastPage.done
    /\ contrastPage' = estimateMinContrastFromOverlay(overlay)
    /\ UNCHANGED <<overlay, cardOpacity, cardRGB, cardColor, contrastCard,
                   geomVars, cardVars, cssVars, exportVars, viewVars, sessVars>>

\* useMemo contrastCard
EstimateCard ==
    /\ ~contrastCard.done
    /\ contrastCard' = estimateCardContrast(overlay, cardOpacity, cardColor)
    /\ UNCHANGED <<overlay, cardOpacity, cardRGB, cardColor, contrastPage,
                   geomVars, cardVars, cssVars, exportVars, viewVars, sessVars>>

ContrastNext == EstimatePage \/ EstimateCard

SpecContrast == ContrastInit /\ [][ContrastNext]_vars

----------------------------------------------------------------------------
(* Specification of the Card Generator: the component starts with a batch   *)
(* of 6 (the generatedCards initialiser) and cardCount 3; the count input   *)
(* and the Random button are used in any order.                             *)

CardInit ==
    /\ cardCount = 3
    /\ batchCount = 6
    /\ batchBy \in {"tsx", "script"}
    /\ \E seed \in Tapes :
          /\ generatedCards = IF batchBy = "tsx"
                              THEN generateRandomCards(6, seed)
                              ELSE generateRandomCardsScript(6, seed)
          /\ rng = Advance(seed, DrawsOf(6))
    /\ FitPosIdle
    /\ GeomIdle
    /\ OverlayIdle
    /\ ContrastIdle
    /\ CssIdle
    /\ ExportIdle
    /\ ViewIdle
    /\ SessIdle

\* the count input's onChange: setCardCount(parseInt(e.target.value) || 3)
ChangeCardCount ==
    /\ \E text \in CountTexts : cardCount' = OrThree(parseInt(text))
    /\ app' = Edited(app, "setCardCount", "")
    /\ UNCHANGED <<generatedCards, batchCount, batchBy, rng, geomVars,
                   contrastVars, cssVars, exportVars, viewVars, sessRest>>
    /\ AutoSaveEffect

\* part_001 Random button: setGeneratedCards(generateRandomCards(cardCount))
ClickRandom ==
    /\ batchBy = "tsx"
    /\ generatedCards' = generateRandomCards(cardCount, rng)
    /\ rng' = Advance(rng, DrawsOf(cardCount))
    /\ batchCount' = cardCount
    /\ app' = Edited(app, "setGeneratedCards", "")
    /\ UNCHANGED <<cardCount, batchBy, geomVars, contrastVars, cssVars,
                   exportVars, viewVars, sessRest>>
    /\ AutoSaveEffect

\* script.js Random button
ClickRandomScript ==
    /\ batchBy = "script"
    /\ generatedCards' = generateRandomCardsScript(cardCount, rng)
    /\ rng' = Advance(rng, DrawsOf(cardCount))
    /\ batchCount' = cardCount
    /\ app' = Edited(app, "setGeneratedCards", "")
    /\ UNCHANGED <<cardCount, batchBy, geomVars, contrastVars, cssVars,
                   exportVars, viewVars, sessRest>>
    /\ AutoSaveEffect

CardNext == ChangeCardCount \/ ClickRandom \/ ClickRandomScript

SpecCards == CardInit /\ [][CardNext]_vars

----------------------------------------------------------------------------
(* Specification of the CSS snippet and colour extraction: an entry (a      *)
(* gradient written with known colour stops, an image, or none) and the     *)
(* display parameters are drawn in the initial state; the snippet is        *)
(* rendered and either copy's extractColors is applied to it.               *)

CssInit ==
    /\ \/ \E shape \in {"linear", "radial"}, family \in StopFamilies,
             n \in 2..MaxStops :
               /\ stops = StopsOf(family, n)
               /\ item = GradientItem(GradientCss(shape, stops))
       \/ /\ stops = <<>>
          /\ item \in {NoItem, ImageItem("data:image/png;base64,xx")}
    /\ fit \in Fits
    /\ pos \in Range(POSITIONS)
    /\ repeat \in BOOLEAN
    /\ overlay \in SnippetOverlays
    /\ snippet = ""
    /\ colors = <<>>
    /\ colorsBy = "none"
    /\ grad = NoGradient
    /\ GeomIdle
    /\ ContrastIdle
    /\ CardIdle
    /\ ExportIdle
    /\ ViewIdle
    /\ SessIdle

\* the Y key / Copy CSS button: cssSnippet(cur, fit, repeat, pos, overlay)
RenderSnippet ==
    /\ snippet = ""
    /\ snippet' = cssSnippet(item, fit, repeat, pos, overlay)
    /\ UNCHANGED <<item, stops, repeat, colors, colorsBy, grad, geomVars,
                   contrastVars, cardVars, exportVars, viewVars, sessVars>>

\* part_001 extractColors applied to the rendered snippet
ExtractFromSnippet ==
    /\ snippet # "" /\ colorsBy = "none"
    /\ colors' = extractColors(snippet)
    /\ colorsBy' = "tsx"
    /\ UNCHANGED <<item, stops, repeat, snippet, grad, geomVars,
                   contrastVars, cardVars, exportVars, viewVars, sessVars>>

\* script.js extractColors applied to the rendered snippet
ExtractFromSnippetScript ==
    /\ snippet # "" /\ colorsBy = "none"
    /\ colors' = extractColorsScript(snippet)
    /\ colorsBy' = "script"
    /\ UNCHANGED <<item, stops, repeat, snippet, grad, geomVars,
                   contrastVars, cardVars, exportVars, viewVars, sessVars>>

CssNext == RenderSnippet \/ ExtractFromSnippet \/ ExtractFromSnippetScript

SpecCss == CssInit /\ [][CssNext]_vars

\* the gradient branch of drawItem: a gradient entry is drawn in the initial
\* state and either copy's drawGradientBackground fills the canvas with it
GradientInit ==
    /\ \E shape \in {"linear", "radial"}, family \in StopFamilies,
          n \in 1..MaxStops :
            /\ stops = StopsOf(family, n)
            /\ item = GradientItem(GradientCss(shape, stops))
    /\ repeat = FALSE
    /\ snippet = ""
    /\ colors = <<>>
    /\ colorsBy = "none"
    /\ grad = NoGradient
    /\ FitPosIdle
    /\ OverlayIdle
    /\ GeomIdle
    /\ ContrastIdle
    /\ CardIdle
    /\ ExportIdle
    /\ ViewIdle
    /\ SessIdle

\* part_001 drawItem, css branch
DrawGradient ==
    /\ grad = NoGradient
    /\ grad' = drawGradientBackground(item.css)
    /\ UNCHANGED <<item, stops, repeat, snippet, colors, colorsBy, fit, pos,
                   overlay, geomRest, contrastVars, cardVars, exportVars,
                   viewVars, sessVars>>

\* script.js drawItem, css branch
DrawGradientScript ==
    /\ grad = NoGradient
    /\ grad' = drawGradientBackgroundScript(item.css)
    /\ UNCHANGED <<item, stops, repeat, snippet, colors, colorsBy, fit, pos,
                   overlay, geomRest, contrastVars, cardVars, exportVars,
                   viewVars, sessVars>>

GradientNext == DrawGradient \/ DrawGradientScript

SpecGradient == GradientInit /\ [][GradientNext]_vars

----------------------------------------------------------------------------
(* Specification of the Raster Exporter: the current entry, the compare     *)
(* slots, showB and the set of decodable sources are drawn in the initial   *)
(* state; one call of either copy's exportBackgroundPNG runs step by step   *)
(* through its awaits until the promise it returned settles.                *)

ExportInit ==
    /\ item \in ExportEntries \cup {NoItem}
    /\ compareA \in ExportEntries \cup {NoItem}
    /\ compareB \in ExportEntries \cup {NoItem}
    /\ showB \in BOOLEAN
    /\ decodes \in SUBSET ImageSources
    /\ exp = IdleExport
    /\ device \in DeviceKeys(DEVICES) \cup DeviceKeys(DEVICESScript)
    /\ rotate \in BOOLEAN
    /\ frameStyle = NoFrame
    /\ SessIdle
    /\ stops = <<>>
    /\ repeat = FALSE
    /\ snippet = ""
    /\ colors = <<>>
    /\ colorsBy = "none"
    /\ grad = NoGradient
    /\ FitPosIdle
    /\ GeomIdle
    /\ OverlayIdle
    /\ ContrastIdle
    /\ CardIdle

\* part_001 doExportPNG and exportBackgroundPNG up to its first await.  The
\* Export PNG button exists only in a component that rendered, so device is
\* a key of DEVICES.  The canvas gets the size asked for and is filled
\* black, and the branch at line 317 is chosen.  Evaluating slotA, a name
\* the function cannot resolve, throws a ReferenceError, which rejects the
\* promise the async function returned.
ExportBackgroundPNG ==
    /\ exp.pc = "idle"
    /\ ~getDeviceCanvasStyle(device, rotate).threw
    /\ frameStyle' = computeFrameStyle(DEVICES, device, rotate)
    /\ LET size == doExportPNGSize(frameStyle')
           canvas == [exp EXCEPT !.by = "tsx", !.width = size.width,
                                 !.height = size.height,
                                 !.left = Black, !.right = Black]
       IN  exp' =
             IF {"slotA", "slotB"} \subseteq ExportScope
             THEN [canvas EXCEPT
                     !.pc = "draw", !.promise = "pending",
                     !.todo = ExportTasks(item, compareA, compareB, showB,
                                          compareA # NoItem
                                              \/ compareB # NoItem)]
             ELSE [canvas EXCEPT !.pc = "done", !.promise = "rejected",
                                 !.value = "ReferenceError"]
    /\ UNCHANGED <<compareA, compareB, showB, decodes, geomVars, contrastVars,
                   cardVars, cssVars, device, rotate, sessVars>>

\* script.js doExportPNG, which reads the frameStyle of the last render
\* (computeFrameStyle(device, rotate)), and exportBackgroundPNG up to its
\* first await: the canvas is Math.max(1, Math.floor(width)) wide
ExportBackgroundPNGScript ==
    /\ exp.pc = "idle"
    /\ ~computeFrameStyle(DEVICESScript, device, rotate).threw
    /\ frameStyle' = computeFrameStyle(DEVICESScript, device, rotate)
    /\ LET size == doExportPNGSizeScript(frameStyle')
       IN  exp' = [exp EXCEPT !.by = "script", !.pc = "draw",
                              !.promise = "pending",
                              !.width = Max(1, size.width),
                              !.height = Max(1, size.height),
                              !.todo = ExportTasksScript(item, compareA,
                                                         compareB, showB)]
    /\ UNCHANGED <<compareA, compareB, showB, decodes, geomVars, contrastVars,
                   cardVars, cssVars, device, rotate, sessVars>>

\* the next drawItem call, up to its await
DrawItem ==
    /\ exp.pc = "draw" /\ exp.todo # <<>>
    /\ LET task == Head(exp.todo)
           does == drawItem(task.it)
       IN  exp' = IF does = "load" THEN [exp EXCEPT !.pc = "await"]
                  ELSE IF does = "gradient" THEN Paint(exp, task)
                  ELSE [exp EXCEPT !.todo = Tail(@)]
    /\ UNCHANGED <<compareA, compareB, showB, decodes, geomVars, contrastVars,
                   cardVars, cssVars, viewVars, sessVars>>

\* loadImage: img.onload resolves, drawImageBackground paints the image
ImageLoaded ==
    /\ exp.pc = "await"
    /\ Head(exp.todo).it.src \in decodes
    /\ exp' = Paint(exp, Head(exp.todo))
    /\ UNCHANGED <<compareA, compareB, showB, decodes, geomVars, contrastVars,
                   cardVars, cssVars, viewVars, sessVars>>

\* loadImage: img.onerror rejects; nothing between loadImage and the caller
\* catches, so the promise exportBackgroundPNG returned rejects
ImageFailed ==
    /\ exp.pc = "await"
    /\ Head(exp.todo).it.src \notin decodes
    /\ exp' = [exp EXCEPT !.pc = "done", !.promise = "rejected",
                          !.value = "error event"]
    /\ UNCHANGED <<compareA, compareB, showB, decodes, geomVars, contrastVars,
                   cardVars, cssVars, viewVars, sessVars>>

\* the overlay is composited over the whole canvas and toBlob is asked for
\* a PNG
DrawOverlay ==
    /\ exp.pc = "draw" /\ exp.todo = <<>>
    /\ exp' = [exp EXCEPT !.overlaid = TRUE, !.pc = "encode"]
    /\ UNCHANGED <<compareA, compareB, showB, decodes, geomVars, contrastVars,
                   cardVars, cssVars, viewVars, sessVars>>

\* toBlob's callback: resolve(URL.createObjectURL(blob))
ToBlob ==
    /\ exp.pc = "encode"
    /\ exp' = [exp EXCEPT !.pc = "done", !.promise = "resolved",
                          !.value = "blob:image/png"]
    /\ UNCHANGED <<compareA, compareB, showB, decodes, geomVars, contrastVars,
                   cardVars, cssVars, viewVars, sessVars>>

ExportNext ==
    \/ ExportBackgroundPNG
    \/ ExportBackgroundPNGScript
    \/ DrawItem
    \/ ImageLoaded
    \/ ImageFailed
    \/ DrawOverlay
    \/ ToBlob

SpecExport == ExportInit /\ [][ExportNext]_vars

----------------------------------------------------------------------------
(* Specification of loading: the storage key holds any of LoadContents, a   *)
(* copy of the component is mounted: its state initialisers run and it      *)
(* renders for the first time.                                              *)

LoadInit ==
    /\ ls \in LoadContents
    /\ app \in {[IdleApp EXCEPT !.by = c] : c \in {"tsx", "script"}}
    /\ items = <<>>
    /\ index = 0
    /\ blur = Num(0)
    /\ darkMode = FALSE
    /\ download = Fieldless("absent")
    /\ SlotIdle
    /\ saveTimer = NoTimer
    /\ uploads = <<>>
    /\ cardCount = 3
    /\ generatedCards = <<>>
    /\ batchCount = 0
    /\ batchBy = app.by
    /\ rng \in {[start |-> 0, step |-> 1], [start |-> 5, step |-> 2]}
    /\ FitPosIdle
    /\ GeomIdle
    /\ OverlayIdle
    /\ ContrastIdle
    /\ CssIdle
    /\ ExportIdle
    /\ ViewIdle

\* part_001: the state initialisers (lines 499-619) and the first render,
\* which throws when getDeviceCanvasStyle does
Mount ==
    /\ app.by = "tsx" /\ app.phase = "unmounted"
    /\ items' = initItems(ls, PRESETS)
    /\ index' = initIndex(ls, PRESETS)
    /\ fit' = initFit(ls)
    /\ repeat' = initRepeat(ls)
    /\ pos' = initPos(ls)
    /\ overlay' = initOverlay(ls)
    /\ blur' = initBlur(ls)
    /\ device' = initDevice(ls)
    /\ rotate' = initRotate(ls)
    /\ cardOpacity' = initCardOpacity(ls)
    /\ darkMode' = initDarkMode(ls)
    /\ cardColor' = initCardColor(ls)
    /\ cardCount' = 3
    /\ generatedCards' = generateRandomCards(6, rng)
    /\ rng' = Advance(rng, DrawsOf(6))
    /\ batchCount' = 6
    /\ frameStyle' = getDeviceCanvasStyle(device', rotate')
    /\ IF frameStyle'.threw
       THEN /\ app' = [app EXCEPT !.phase = "crashed", !.op = "mount"]
            /\ UNCHANGED <<contrastPage, contrastCard, saveTimer>>
       ELSE /\ app' = [app EXCEPT !.phase = "loaded", !.op = "mount"]
            /\ saveTimer'
                 = Scheduled(SavedState("autosave", items', index', fit',
                                        repeat', pos', overlay', blur',
                                        device', rotate', cardOpacity',
                                        darkMode', cardColor', cardCount',
                                        generatedCards'))
            /\ contrastPage' = estimateMinContrastFromOverlay(overlay')
            /\ contrastCard'
                 = estimateCardContrast(overlay', cardOpacity', cardColor')
    /\ showB' = FALSE
    /\ slotA' = NoSlot
    /\ slotB' = NoSlot
    /\ keyScope' = KeyScope(showB', slotA', slotB', index')
    /\ UNCHANGED <<ls, download, batchBy, cardRGB, geomRest, item, stops,
                   snippet, colors, colorsBy, grad, compareA, compareB,
                   decodes, exp, pngCall, uploads>>

\* script.js: the state initialisers (lines 645-762) and the first render
MountScript ==
    /\ app.by = "script" /\ app.phase = "unmounted"
    /\ items' = initItems(ls, PRESETSScript)
    /\ index' = initIndex(ls, PRESETSScript)
    /\ fit' = initFit(ls)
    /\ repeat' = initRepeat(ls)
    /\ pos' = initPos(ls)
    /\ overlay' = initOverlay(ls)
    /\ blur' = initBlur(ls)
    /\ device' = initDeviceScript(ls)
    /\ rotate' = initRotate(ls)
    /\ cardOpacity' = initCardOpacity(ls)
    /\ darkMode' = initDarkMode(ls)
    /\ cardColor' = initCardColor(ls)
    /\ cardCount' = 3
    /\ generatedCards' = generateRandomCardsScript(6, rng)
    /\ rng' = Advance(rng, DrawsOf(6))
    /\ batchCount' = 6
    /\ frameStyle' = computeFrameStyle(DEVICESScript, device', rotate')
    /\ IF frameStyle'.threw
       THEN /\ app' = [app EXCEPT !.phase = "crashed", !.op = "mount"]
            /\ UNCHANGED <<contrastPage, contrastCard, saveTimer>>
       ELSE /\ app' = [app EXCEPT !.phase = "loaded", !.op = "mount"]
            /\ saveTimer'
                 = Scheduled(SavedState("autosave", items', index', fit',
                                        repeat', pos', overlay', blur',
                                        device', rotate', cardOpacity',
                                        darkMode', cardColor', cardCount',
                                        generatedCards'))
            /\ contrastPage' = estimateMinContrastFromOverlay(overlay')
            /\ contrastCard'
                 = estimateCardContrast(overlay', cardOpacity', cardColor')
    /\ showB' = FALSE
    /\ slotA' = NoSlot
    /\ slotB' = NoSlot
    /\ keyScope' = KeyScope(showB', slotA', slotB', index')
    /\ UNCHANGED <<ls, download, batchBy, cardRGB, geomRest, item, stops,
                   snippet, colors, colorsBy, grad, compareA, compareB,
                   decodes, exp, pngCall, uploads>>

LoadNext == Mount \/ MountScript

SpecLoad == LoadInit /\ [][LoadNext]_vars

----------------------------------------------------------------------------
(* Specification of a session: a copy of the component is mounted on a      *)
(* stored value of SessionContents; the user edits the items list, the      *)
(* cards and a display setting, the state is saved by the auto-save timer   *)
(* or the S key and exported by the J key or the Export JSON button, and    *)
(* the page is loaded again.                                                *)

SessionInit ==
    /\ ls \in SessionContents
    /\ app \in {[IdleApp EXCEPT !.by = c] : c \in {"tsx", "script"}}
    /\ items = <<>>
    /\ index = 0
    /\ blur = Num(0)
    /\ darkMode = FALSE
    /\ download = Fieldless("absent")
    /\ SlotIdle
    /\ saveTimer = NoTimer
    /\ uploads = <<>>
    /\ cardCount = 3
    /\ generatedCards = <<>>
    /\ batchCount = 0
    /\ batchBy = app.by
    /\ rng = [start |-> 5, step |-> 1]
    /\ FitPosIdle
    /\ GeomIdle
    /\ OverlayIdle
    /\ ContrastIdle
    /\ CssIdle
    /\ ExportIdle
    /\ ViewIdle

Running == app.phase = "loaded"

CanEdit == Running /\ app.edits < MaxEdits

\* what a session action leaves alone besides the state it names
sessionRest ==
    <<batchBy, cardRGB, geomRest, item, stops, snippet, colors, colorsBy,
      grad, exportVars, slotA, slotB, pngCall, uploads>>

\* the display state no items handler touches
displayVars ==
    <<fit, pos, repeat, overlay, blur, device, rotate, frameStyle,
      cardOpacity, darkMode, cardColor, contrastPage, contrastCard>>

\* the card state
deckVars == <<cardCount, generatedCards, batchCount>>

\* the dependency list of the effect that installs the keydown listener
\* (sidebarCollapsed, hideHeader and hideThumbs are not part of the model)
KeyDeps ==
    IF app.by = "script"
    THEN <<items, Cur(items, index), items # <<>>, fit, repeat, pos, overlay,
           blur, device, rotate, cardOpacity, darkMode>>
    ELSE <<items, Cur(items, index), items # <<>>, fit, repeat, pos, overlay,
           blur, device, rotate, cardOpacity, darkMode, cardColor, cardCount,
           generatedCards>>

\* the render after a handler: the effect installs a listener of the new
\* render when a dependency has changed, and keeps the old one otherwise
KeyboardEffect ==
    keyScope' = IF KeyDeps' # KeyDeps
                THEN KeyScope(showB', slotA', slotB', index')
                ELSE keyScope

\* the state of the component as the auto-save effect writes it
CurrentState(by) ==
    SavedState(by, items, index, fit, repeat, pos, overlay, blur, device,
               rotate, cardOpacity, darkMode, cardColor, cardCount,
               generatedCards)

\* the state as the keydown listener's S and J branches see it: the index of
\* the render that installed the listener, and the current value of every
\* state the effect's dependency list names
ListenerState(by) ==
    SavedState(by, items, keyScope.index, fit, repeat, pos, overlay, blur,
               device, rotate, cardOpacity, darkMode, cardColor, cardCount,
               generatedCards)

\* the file input's onChange: addUploads(e.target.files)
AddUploads ==
    /\ CanEdit
    /\ \E files \in FileLists :
         LET adds == addsOf(files, rng)
         IN  /\ IF adds # <<>>
                THEN /\ items' = normalizeItems(adds \o items)
                     /\ index' = 0
                ELSE UNCHANGED <<items, index>>
             /\ rng' = Advance(rng, Len(adds))
             /\ app' = [Edited(app, "addUploads", "") EXCEPT !.files = files]
    /\ UNCHANGED <<ls, download, displayVars, deckVars, sessionRest>>
    /\ KeyboardEffect
    /\ AutoSaveEffect

\* a thumbnail's remove button: removeItem(item.id)
RemoveItem ==
    /\ CanEdit
    /\ \E id \in Ids(items) :
         /\ items' = removeItem(items, id)
         /\ app' = Edited(app, "removeItem", id)
    /\ index' = 0
    /\ UNCHANGED <<ls, download, rng, displayVars, deckVars, sessionRest>>
    /\ KeyboardEffect
    /\ AutoSaveEffect

\* a thumbnail's star (any entry) or the F key (the current entry):
\* toggleFavorite(id)
ToggleFavorite ==
    /\ CanEdit
    /\ \E id \in Ids(items) :
         /\ items' = toggleFavorite(items, id)
         /\ app' = Edited(app, "toggleFavorite", id)
    /\ UNCHANGED <<index, ls, download, rng, displayVars, deckVars,
                   sessionRest>>
    /\ KeyboardEffect
    /\ AutoSaveEffect

\* the ArrowRight key: setIndex((i) => (i + 1) % items.length)
ArrowRight ==
    /\ CanEdit
    /\ items # <<>>
    /\ index' = (index + 1) % Len(items)
    /\ app' = Edited(app, "setIndex", "")
    /\ UNCHANGED <<items, ls, download, rng, displayVars, deckVars,
                   sessionRest>>
    /\ KeyboardEffect
    /\ AutoSaveEffect

\* the ArrowLeft key: setIndex((i) => (i - 1 + items.length) % items.length)
ArrowLeft ==
    /\ CanEdit
    /\ items # <<>>
    /\ index' = (index - 1 + Len(items)) % Len(items)
    /\ app' = Edited(app, "setIndex", "")
    /\ UNCHANGED <<items, ls, download, rng, displayVars, deckVars,
                   sessionRest>>
    /\ KeyboardEffect
    /\ AutoSaveEffect

\* a click on a thumbnail: setIndex(items.findIndex((x) => x?.id === item.id))
ClickThumbnail ==
    /\ CanEdit
    /\ \E k \in 1..Len(visibleThumbnails(items)) :
         LET thumb == visibleThumbnails(items)[k]
         IN  /\ index' = findIndex(items, thumb.id)
             /\ app' = Edited(app, "setIndex", "")
    /\ UNCHANGED <<items, ls, download, rng, displayVars, deckVars,
                   sessionRest>>
    /\ KeyboardEffect
    /\ AutoSaveEffect

\* a key 1 .. 9: the num-th visible thumbnail is picked, if there is one
DigitKey ==
    /\ CanEdit
    /\ items # <<>>
    /\ \E num \in 1..9 :
         LET pool == visibleThumbnails(items)
         IN  /\ IF num <= Len(pool)
                THEN index' = findIndex(items, pool[num].id)
                ELSE UNCHANGED index
             /\ app' = Edited(app, "setIndex", "")
    /\ UNCHANGED <<items, ls, download, rng, displayVars, deckVars,
                   sessionRest>>
    /\ KeyboardEffect
    /\ AutoSaveEffect

\* the fit select: setFit(e.target.value)
ChangeFit ==
    /\ CanEdit
    /\ \E f \in FitOptions : fit' = f
    /\ app' = Edited(app, "setFit", "")
    /\ UNCHANGED <<items, index, ls, download, rng, pos, repeat, overlay,
                   blur, device, rotate, frameStyle, cardOpacity, darkMode,
                   cardColor, contrastPage, contrastCard, deckVars,
                   sessionRest>>
    /\ KeyboardEffect
    /\ AutoSaveEffect

\* the auto-save effect's timeout fires: the storage key takes the state
\* object the effect built when it set the timeout
AutoSave ==
    /\ CanEdit
    /\ saveTimer.pending
    /\ ls' = saveTimer.state
    /\ saveTimer' = [saveTimer EXCEPT !.pending = FALSE]
    /\ app' = [Edited(app, "autosave", "") EXCEPT
                 !.saved = CurrentState("saved")]
    /\ UNCHANGED <<items, index, download, rng, displayVars, deckVars,
                   sessionRest, keyScope>>

\* part_001 S key
SaveKey ==
    /\ CanEdit /\ app.by = "tsx"
    /\ ls' = ListenerState("S")
    /\ app' = [Edited(app, "S", "") EXCEPT !.saved = CurrentState("saved")]
    /\ UNCHANGED <<items, index, download, rng, displayVars, deckVars,
                   sessionRest,
                   keyScope, saveTimer>>

\* script.js S key
SaveKeyScript ==
    /\ CanEdit /\ app.by = "script"
    /\ ls' = SavedStateKeyScript("S", items, keyScope.index, fit, repeat, pos,
                                 overlay, blur, device, rotate, cardOpacity,
                                 darkMode)
    /\ app' = [Edited(app, "S", "") EXCEPT !.saved = CurrentState("saved")]
    /\ UNCHANGED <<items, index, download, rng, displayVars, deckVars,
                   sessionRest,
                   keyScope, saveTimer>>

\* part_001 J key
ExportJSONKey ==
    /\ CanEdit /\ app.by = "tsx"
    /\ download' = ListenerState("J")
    /\ app' = Edited(app, "J", "")
    /\ UNCHANGED <<items, index, ls, rng, displayVars, deckVars, sessionRest,
                   keyScope, saveTimer>>

\* part_001 Export JSON button
ExportJSONButton ==
    /\ CanEdit /\ app.by = "tsx"
    /\ download' = CurrentState("Export JSON")
    /\ app' = Edited(app, "Export JSON", "")
    /\ UNCHANGED <<items, index, ls, rng, displayVars, deckVars, sessionRest,
                   keyScope, saveTimer>>

\* script.js J key
ExportJSONKeyScript ==
    /\ CanEdit /\ app.by = "script"
    /\ download' = ExportedStateScript("J", items, keyScope.index, fit,
                                       repeat, pos, overlay, blur, device,
                                       rotate, cardOpacity)
    /\ app' = Edited(app, "J", "")
    /\ UNCHANGED <<items, index, ls, rng, displayVars, deckVars, sessionRest,
                   keyScope, saveTimer>>

\* script.js Export JSON button
ExportJSONButtonScript ==
    /\ CanEdit /\ app.by = "script"
    /\ download' = ExportedStateScript("Export JSON", items, index, fit,
                                       repeat, pos, overlay, blur, device,
                                       rotate, cardOpacity)
    /\ app' = Edited(app, "Export JSON", "")
    /\ UNCHANGED <<items, index, ls, rng, displayVars, deckVars, sessionRest,
                   keyScope, saveTimer>>

\* the page is loaded again: the component's state is gone, the storage key
\* and the downloaded file stay
Reload ==
    /\ Running
    /\ app.loads < MaxLoads
    /\ app' = [app EXCEPT !.phase = "unmounted", !.loads = @ + 1,
                          !.op = "reload", !.arg = ""]
    /\ items' = <<>>
    /\ index' = 0
    /\ blur' = Num(0)
    /\ darkMode' = FALSE
    /\ cardCount' = 3
    /\ generatedCards' = <<>>
    /\ batchCount' = 0
    /\ fit' = "cover"
    /\ pos' = "center center"
    /\ repeat' = FALSE
    /\ overlay' = <<7, 20>>
    /\ cardOpacity' = <<2, 25>>
    /\ cardColor' = "#000000"
    /\ device' = "fluid"
    /\ rotate' = FALSE
    /\ frameStyle' = NoFrame
    /\ UNCHANGED <<ls, download, rng, contrastPage, contrastCard,
                   sessionRest,
                   keyScope>>
    /\ saveTimer' = NoTimer

SessionNext ==
    \/ Mount
    \/ MountScript
    \/ AddUploads
    \/ RemoveItem
    \/ ToggleFavorite
    \/ ArrowRight
    \/ ChangeFit
    \/ (CanEdit /\ ChangeCardCount)
    \/ (CanEdit /\ ClickRandom)
    \/ (CanEdit /\ ClickRandomScript)
    \/ AutoSave
    \/ SaveKey
    \/ SaveKeyScript
    \/ ExportJSONKey
    \/ ExportJSONButton
    \/ ExportJSONKeyScript
    \/ ExportJSONButtonScript
    \/ Reload

SpecSession == SessionInit /\ [][SessionNext]_vars

----------------------------------------------------------------------------
(* Specification of the selection: a session in which the list of entries  *)
(* changes and the index is moved by the arrow keys, a click on a          *)
(* thumbnail and the keys 1 to 9.                                          *)

IndexNext ==
    \/ Mount
    \/ MountScript
    \/ AddUploads
    \/ RemoveItem
    \/ ArrowRight
    \/ ArrowLeft
    \/ ClickThumbnail
    \/ DigitKey

SpecIndex == SessionInit /\ [][IndexNext]_vars

----------------------------------------------------------------------------
(* Specification of the compare slots: a session in which the current      *)
(* entry is recorded in a slot, the list of entries changes, the C key     *)
(* flips showB, and a PNG export is started by the P key or by the         *)
(* Export PNG button. pngCall keeps what doExportPNG hands to               *)
(* exportBackgroundPNG; the export itself is the one of SpecExport.         *)

\* setCompareSlot(slot): the slot takes the current index
SetCompareSlot ==
    /\ CanEdit
    /\ \E slot \in {"A", "B"} :
         /\ IF items = <<>> THEN UNCHANGED <<slotA, slotB>>
            ELSE IF slot = "A" THEN slotA' = index /\ UNCHANGED slotB
            ELSE slotB' = index /\ UNCHANGED slotA
         /\ app' = Edited(app, "setCompareSlot", slot)
    /\ UNCHANGED <<items, index, ls, download, rng, displayVars, deckVars,
                   batchBy, cardRGB, geomRest, item, stops, snippet, colors,
                   colorsBy, grad, exportVars, pngCall, uploads>>
    /\ KeyboardEffect
    /\ AutoSaveEffect

\* the C key: if (k === "c" && hasItems) setShowB((s) => !s)
ToggleShowB ==
    /\ CanEdit
    /\ showB' = IF items # <<>> THEN ~showB ELSE showB
    /\ app' = Edited(app, "C", "")
    /\ UNCHANGED <<items, index, ls, download, rng, displayVars, deckVars,
                   batchBy, cardRGB, geomRest, item, stops, snippet, colors,
                   colorsBy, grad, compareA, compareB, decodes, exp, slotA,
                   slotB, pngCall, uploads>>
    /\ KeyboardEffect
    /\ AutoSaveEffect

\* the P key: the listener calls the doExportPNG of the render that
\* installed it
ExportPNGKey ==
    /\ CanEdit
    /\ pngCall' = PngCall("P", keyScope, items)
    /\ app' = Edited(app, "P", "")
    /\ UNCHANGED <<items, index, ls, download, rng, displayVars, deckVars,
                   batchBy, cardRGB, geomRest, item, stops, snippet, colors,
                   colorsBy, grad, exportVars, slotA, slotB, keyScope, saveTimer,
                   uploads>>

\* the Export PNG button: onClick is the doExportPNG of the current render
ExportPNGButton ==
    /\ CanEdit
    /\ pngCall' = PngCall("Export PNG",
                           KeyScope(showB, slotA, slotB, index), items)
    /\ app' = Edited(app, "Export PNG", "")
    /\ UNCHANGED <<items, index, ls, download, rng, displayVars, deckVars,
                   batchBy, cardRGB, geomRest, item, stops, snippet, colors,
                   colorsBy, grad, exportVars, slotA, slotB, keyScope, saveTimer,
                   uploads>>

CompareNext ==
    \/ Mount
    \/ MountScript
    \/ AddUploads
    \/ RemoveItem
    \/ ArrowRight
    \/ SetCompareSlot
    \/ ToggleShowB
    \/ ExportPNGKey
    \/ ExportPNGButton

SpecCompare == SessionInit /\ [][CompareNext]_vars

----------------------------------------------------------------------------
(* Specification of the debounced auto-save: a session in which handlers   *)
(* change the saved state, the auto-save timeout is set again by every     *)
(* change and fires when it is left pending, and the S key writes the      *)
(* storage key at once. A pending timeout fires within 250 ms unless a     *)
(* change clears it: weak fairness of AutoSave. The session ends after     *)
(* MaxEdits handlers and timeouts, a timeout may be left pending then.     *)

AutosaveNext ==
    \/ Mount
    \/ MountScript
    \/ AddUploads
    \/ RemoveItem
    \/ ClickThumbnail
    \/ ChangeFit
    \/ (CanEdit /\ ChangeCardCount)
    \/ AutoSave
    \/ SaveKey
    \/ SaveKeyScript

SpecAutosave == SessionInit /\ [][AutosaveNext]_vars /\ WF_vars(AutoSave)

----------------------------------------------------------------------------
(* Specification of uploads in flight: addUploads is an async function, so *)
(* a second call can be made while the first awaits a file read, and the   *)
(* reads of the two calls finish in any order.                             *)

\* the calls that have not returned
InFlight == {b \in 1..Len(uploads) : ~uploads[b].done}

\* the reads finished so far
Reads == LET RECURSIVE Sum(_)
             Sum(b) == IF b = 0 THEN 0
                       ELSE Len(uploads[b].ticks) + Sum(b - 1)
         IN  Sum(Len(uploads))

\* the file input's onChange: addUploads(e.target.files) runs up to its
\* first await, or returns if no file is an image
StartUpload ==
    /\ Running
    /\ Len(uploads) < MaxBatches
    /\ \E files \in FileLists :
         uploads' = Append(uploads,
                           Batch(files, SkipOthers(files), <<>>, items,
                                 Cardinality(InFlight), <<>>))
    /\ UNCHANGED <<items, index, ls, download, rng, app, displayVars,
                   deckVars, batchBy, cardRGB, geomRest, item, stops,
                   snippet, colors, colorsBy, grad, exportVars, slotVars,
                   saveTimer>>

\* a file read settles: the call b pushes the entry (or the empty catch
\* passes the file over) and goes on to its next await; after its last file
\* it prepends its adds and sets the index
ReadSettles ==
    /\ Running
    /\ \E b \in InFlight :
         LET call == uploads[b]
             f == Head(call.files)
             adds == IF f.readable
                     THEN Append(call.adds, pushedEntry(f, rng))
                     ELSE call.adds
             rest == SkipOthers(Tail(call.files))
         IN  /\ rng' = IF f.readable THEN Advance(rng, 1) ELSE rng
             /\ uploads' = [uploads EXCEPT ![b] =
                              Batch(call.list, rest, adds, call.prev,
                                    call.seen,
                                    Append(call.ticks, Reads + 1))]
             /\ IF rest = <<>> /\ adds # <<>>
                THEN /\ items' = prependAdds(adds, items, call.prev)
                     /\ index' = 0
                ELSE UNCHANGED <<items, index>>
    /\ UNCHANGED <<ls, download, app, displayVars, deckVars, batchBy,
                   cardRGB, geomRest, item, stops, snippet, colors, colorsBy,
                   grad, exportVars, slotA, slotB, pngCall>>
    /\ KeyboardEffect
    /\ AutoSaveEffect

UploadsNext == Mount \/ MountScript \/ StartUpload \/ ReadSettles

SpecUploads == SessionInit /\ [][UploadsNext]_vars

----------------------------------------------------------------------------
(* Claims about the Geometry Resolver *)

Drawn == rectBy # "none"

\* dw * sh = dh * sw
KeepsAspect == RatMul(rect.dw, Num(img.height)) = RatMul(rect.dh, Num(img.width))

CoversDest ==
    /\ RatLE(rect.dx, Num(0))
    /\ RatLE(rect.dy, Num(0))
    /\ RatLE(Num(W), RatAdd(rect.dx, rect.dw))
    /\ RatLE(Num(H), RatAdd(rect.dy, rect.dh))

InsideDest ==
    /\ RatLE(Num(0), rect.dx)
    /\ RatLE(Num(0), rect.dy)
    /\ RatLE(RatAdd(rect.dx, rect.dw), Num(W))
    /\ RatLE(RatAdd(rect.dy, rect.dh), Num(H))

\* C1: with fit = cover, for all positive sizes and every anchor, the
\* rectangle computeDrawRect returns covers the destination and keeps the
\* source aspect ratio.
C1_CoverCoversDest ==
    (Drawn /\ fit = "cover") => (CoversDest /\ KeepsAspect)

\* C2: with fit = contain, for all positive sizes and every anchor, the
\* rectangle computeDrawRect returns lies inside the destination and keeps
\* the source aspect ratio.
C2_ContainInsideDest ==
    (Drawn /\ fit = "contain") => (InsideDest /\ KeepsAspect)

\* a 2:1 image contained in a square by part_001: letterboxed top and bottom
C2_Witness ==
    /\ rectBy = "tsx" /\ fit = "contain" /\ pos = "center center"
    /\ img = [width |-> 4, height |-> 2] /\ W = 4 /\ H = 4
    /\ rect = MkRect(Num(0), Num(1), Num(4), Num(2))

\* the offset the claim names for one axis of an anchor
AxisOffset(anchor, minKey, maxKey, destSize, size) ==
    IF Includes(anchor, minKey) THEN Num(0)
    ELSE IF Includes(anchor, maxKey) THEN RatSub(Num(destSize), size)
    ELSE JsDiv(RatSub(Num(destSize), size), Num(2))

\* C3: for fit cover or contain and every anchor the copy's position
\* selector offers (and every two-keyword anchor), the horizontal offset is
\* 0 / destW - w / (destW - w)/2 for left / right / otherwise and the
\* vertical offset is 0 / destH - h / (destH - h)/2 for top / bottom /
\* otherwise.
C3_AnchorPerAxis ==
    (Drawn /\ fit \in {"cover", "contain"} /\ pos \in AnchorsOf(rectBy)) =>
        /\ rect.dx = AxisOffset(pos, "left", "right", W, rect.dw)
        /\ rect.dy = AxisOffset(pos, "top", "bottom", H, rect.dh)

----------------------------------------------------------------------------
(* Claims about the Contrast Estimator *)

InSliderTrack(ov) == RatLE(Num(0), ov) /\ RatLE(ov, <<19, 20>>)

\* C4: for every overlay in [0, 0.95] estimateMinContrastFromOverlay
\* returns ratio = 1.05 / ((1 - overlay) + 0.05), passAA exactly when
\* ratio >= 4.5 and passAAA exactly when ratio >= 7.0; overlay 0 gives ratio
\* 1.0 and overlay 0.9 gives ratio >= 7.0 with passAAA true.
C4_PageContrast ==
    (contrastPage.done /\ InSliderTrack(overlay)) =>
        /\ IsFinite(contrastPage.ratio)
        /\ RatMul(contrastPage.ratio,
                  RatAdd(RatSub(Num(1), overlay), <<1, 20>>)) = <<21, 20>>
        /\ contrastPage.passAA <=> RatLE(<<9, 2>>, contrastPage.ratio)
        /\ contrastPage.passAAA <=> RatLE(Num(7), contrastPage.ratio)
        /\ (overlay = Num(0)) => (contrastPage.ratio = Num(1))
        /\ (overlay = <<9, 10>>) =>
               (RatLE(Num(7), contrastPage.ratio) /\ contrastPage.passAAA)

\* the page estimate at overlay 0.9: ratio exactly 7, AAA passes
C4_Witness ==
    /\ contrastPage.done
    /\ overlay = <<9, 10>>
    /\ contrastPage.ratio = Num(7)
    /\ contrastPage.passAA /\ contrastPage.passAAA

\* the composite luminance the claims name, from the picked channels
ClaimedCardLuminance ==
    JsDiv(RatAdd(RatAdd(RatMul(<<299, 1000>>, Num(cardRGB[1])),
                        RatMul(<<587, 1000>>, Num(cardRGB[2]))),
                 RatMul(<<114, 1000>>, Num(cardRGB[3]))), Num(255))

ClaimedLcard ==
    LET a == Clamp(cardOpacity, Num(0), Num(1))
    IN  RatAdd(RatMul(a, ClaimedCardLuminance),
               RatMul(RatSub(Num(1), a),
                      RatSub(Num(1), Clamp(overlay, Num(0), <<19, 20>>))))

\* C5: every luminance computation uses overlay clamped to [0, 0.95] and
\* cardOpacity clamped to [0, 1], also for stored values outside the
\* sliders' tracks: both estimates equal what the clamped overlay gives, so
\* the reported ratio is finite and at least 1.
C5_OverlayClampedBeforeUse ==
    /\ contrastPage.done =>
        /\ IsFinite(contrastPage.ratio)
        /\ RatLE(Num(1), contrastPage.ratio)
        /\ RatMul(contrastPage.ratio,
                  RatAdd(RatSub(Num(1), Clamp(overlay, Num(0), <<19, 20>>)),
                         <<1, 20>>)) = <<21, 20>>
    /\ contrastCard.done =>
        /\ IsFinite(contrastCard.ratio)
        /\ RatLE(Num(1), contrastCard.ratio)
        /\ contrastCard.L_card = ClaimedLcard

\* C6: chooseTextColorForCard computes L_card = a * cardLuminance +
\* (1 - a) * (1 - clamp(overlay, 0, 0.95)) with a = clamp(cardOpacity, 0, 1),
\* the ratio against white 1.05 / (L_card + 0.05) and against black
\* (L_card + 0.05) / 0.05, and reports the colour with the larger ratio,
\* that ratio, and the AA / AAA flags ratio >= 4.5 / ratio >= 7.0.
C6_CardTextChoice ==
    contrastCard.done =>
        LET againstWhite == JsDiv(<<21, 20>>, RatAdd(ClaimedLcard, <<1, 20>>))
            againstBlack == JsDiv(RatAdd(ClaimedLcard, <<1, 20>>), <<1, 20>>)
        IN  /\ contrastCard.L_card = ClaimedLcard
            /\ contrastCard.color \in {"white", "black"}
            /\ (contrastCard.color = "white") =>
                   (contrastCard.ratio = againstWhite
                    /\ RatLE(againstBlack, againstWhite))
            /\ (contrastCard.color = "black") =>
                   (contrastCard.ratio = againstBlack
                    /\ RatLE(againstWhite, againstBlack))
            /\ contrastCard.passAA <=> RatLE(<<9, 2>>, contrastCard.ratio)
            /\ contrastCard.passAAA <=> RatLE(Num(7), contrastCard.ratio)

\* a quarter-opaque red card over overlay 0.4: L_card = 0.52475, black text
\* wins
C6_Witness ==
    /\ contrastCard.done
    /\ overlay = <<2, 5>> /\ cardOpacity = <<1, 4>> /\ cardRGB = <<255, 0, 0>>
    /\ contrastCard.color = "black"
    /\ contrastCard.L_card = <<2099, 4000>>
    /\ contrastCard.passAAA

----------------------------------------------------------------------------
(* Claims about the Card Generator *)

\* C7: card generation clamps its count to [1, 12]: for every integer the
\* card-count input can deliver, the generated batch has exactly
\* min(12, max(1, count)) cards.
C7_BatchSizeClamped ==
    Len(generatedCards) = Min(12, Max(1, batchCount))

\* C8: for every count in 1..12 and every outcome of the random source,
\* generateRandomCards(count) returns exactly count cards, each with a
\* non-empty title from the title pool and a non-empty content from the
\* content pool of its copy.
C8_BatchFromPools ==
    (batchCount \in 1..12) =>
        /\ Len(generatedCards) = batchCount
        /\ \A i \in 1..Len(generatedCards) :
              /\ generatedCards[i].title \in Range(cardTitles)
              /\ generatedCards[i].title # ""
              /\ generatedCards[i].content \in
                    (IF batchBy = "tsx" THEN Range(cardContents)
                     ELSE Range(cardContentsScript))
              /\ generatedCards[i].content # ""

\* a batch of 12 made by the Random button of part_001 in which the last
\* title and the last content of the pools are drawn, twice over
C8_Witness ==
    /\ batchBy = "tsx" /\ batchCount = 12 /\ cardCount = 12
    /\ Len(generatedCards) = 12
    /\ generatedCards[1].title = "Machine Consciousness"
    /\ generatedCards[2].title = generatedCards[1].title
    /\ generatedCards[12].content = cardContents[6]

----------------------------------------------------------------------------
(* Claims about the CSS snippet and colour extraction *)

\* C9: round trip on gradients: for every gradient entry whose colour stops
\* are hex (3- or 6-digit) or rgb()/rgba() tokens, extractColors applied to
\* cssSnippet(entry, fit, repeat, pos, overlay) returns the entry's colour
\* stops unchanged, in order, truncated to the first 6, with no extra colour.
C9_GradientRoundTrip ==
    (colorsBy # "none" /\ item.type = "css") => (colors = Slice(stops, 6))

----------------------------------------------------------------------------
(* Claims about the Raster Exporter *)

\* the entries a call can draw are gradients or images that decode
ExportInputsDecode ==
    /\ item # NoItem
    /\ \A e \in {item, compareA, compareB} :
           e.type = "image" => e.src \in decodes

\* C10: a call to exportBackgroundPNG with a gradient entry or an image
\* entry that decodes, for every combination of compare slots and showB,
\* never throws or rejects (the promise it returned is never rejected);
\* the claim also says it eventually resolves with a PNG reference.
C10_ExportNeverRejects ==
    ExportInputsDecode => exp.promise # "rejected"

\* C11: when loadImage rejects during exportBackgroundPNG the export is not
\* aborted: the step that follows a failed decode leaves the promise
\* unrejected, drops only the failed draw and keeps what the canvas shows.
C11_DecodeFailureNotFatal ==
    [][(exp.pc = "await" /\ Head(exp.todo).it.src \notin decodes)
         => /\ exp'.promise # "rejected"
            /\ exp'.left = exp.left /\ exp'.right = exp.right]_vars

\* C12: whenever a compare slot is set, the entry exportBackgroundPNG has
\* drawn into each half of the canvas is the entry the live preview shows
\* in that half for the same cur, compareA, compareB and showB.
C12_ExportMatchesPreview ==
    (exp.promise = "resolved" /\ (compareA # NoItem \/ compareB # NoItem))
        => LET seen == LivePreview(item, compareA, compareB, showB, TRUE)
           IN  exp.left = seen.left /\ exp.right = seen.right

\* the pixel size of a device of either copy (mobile-portrait and
\* mobile-landscape are script.js's mobile devices)
NominalSize(dev) ==
    IF dev \in {"mobile", "mobile-portrait"} THEN <<390, 844>>
    ELSE IF dev = "mobile-landscape" THEN <<844, 390>>
    ELSE IF dev = "tablet" THEN <<820, 1180>>
    ELSE <<1440, 900>>

\* C13: doExportPNG exports a bitmap whose width and height equal the active
\* device's pixel size, swapped when rotated, and 1440x900 when the device
\* is fluid.
C13_ExportSize ==
    exp.by # "none"
        => LET n == NominalSize(device)
               swap == rotate /\ device # "fluid"
           IN  /\ exp.width = (IF swap THEN n[2] ELSE n[1])
               /\ exp.height = (IF swap THEN n[1] ELSE n[2])

----------------------------------------------------------------------------
(* Claims about persistence *)

\* the component has been loaded from the storage key
Loaded == app.phase \in {"loaded", "crashed"}

\* the stored value gives no value for field f
FieldMissing(f) == ls.kind # "object" \/ ls[f].t = "undefined"

\* C15: for any content of the storage key, state initialisation and the
\* first render complete without throwing, and every missing field takes
\* its default: fit cover, overlay 0.35, blur 0, cardOpacity 0.08, pos
\* "center center", repeat false.
C15_LoadDefaults ==
    Loaded
        => /\ app.phase # "crashed"
           /\ FieldMissing("fit") => fit = "cover"
           /\ FieldMissing("overlay") => overlay = <<7, 20>>
           /\ FieldMissing("blur") => blur = Num(0)
           /\ FieldMissing("cardOpacity") => cardOpacity = <<2, 25>>
           /\ FieldMissing("pos") => pos = "center center"
           /\ FieldMissing("repeat") => repeat = FALSE

\* the viewport keys of the other version that a copy's DEVICES lacks
LegacyDeviceKeys(copy) ==
    IF copy = "tsx" THEN {"mobile-portrait", "mobile-landscape"}
    ELSE {"mobile"}

\* the storage key holds a legacy viewport key
StoredLegacyDevice ==
    /\ ls.kind = "object" /\ ls.device.t = "string"
    /\ ls.device.s \in LegacyDeviceKeys(app.by)

----------------------------------------------------------------------------
(* Claims about a session *)

\* the handler that ran last is a JSON export
Exported == Running /\ app.op \in {"J", "Export JSON"}

\* C17: the file a JSON export downloads (Export JSON button or J key) holds
\* the items list, index, fit, repeat, pos, overlay, blur, cardOpacity,
\* cardColor, device, rotate and generatedCards, each equal to the state of
\* the component at the time of the export
C17_JsonExportComplete ==
    Exported =>
        /\ download.kind = "object"
        /\ download.items = JList(items)
        /\ download.index = JNum(Num(index))
        /\ download.fit = JStr(fit)
        /\ download.repeat = JBool(repeat)
        /\ download.pos = JStr(pos)
        /\ download.overlay = JNum(overlay)
        /\ download.blur = JNum(blur)
        /\ download.cardOpacity = JNum(cardOpacity)
        /\ download.cardColor = JStr(cardColor)
        /\ download.device = JStr(device)
        /\ download.rotate = JBool(rotate)
        /\ download.generatedCards = JList(generatedCards)

\* the page has just been loaded again after the component saved its state
Restored ==
    /\ Running /\ app.op = "mount"
    /\ app.saved.kind = "object"
    /\ ls.by \in {"autosave", "S"}

\* C18: after a save (auto-save or S key) and a load, the restored state
\* equals the state that was saved: items list, index, display settings,
\* card colour, card count, generated cards, device and rotation
C18_SaveRestoreRoundTrip ==
    Restored =>
        LET now == CurrentState("saved")
        IN  /\ now.items = app.saved.items
            /\ now.index = app.saved.index
            /\ now.fit = app.saved.fit
            /\ now.repeat = app.saved.repeat
            /\ now.pos = app.saved.pos
            /\ now.overlay = app.saved.overlay
            /\ now.blur = app.saved.blur
            /\ now.cardOpacity = app.saved.cardOpacity
            /\ now.cardColor = app.saved.cardColor
            /\ now.cardCount = app.saved.cardCount
            /\ now.generatedCards = app.saved.generatedCards
            /\ now.device = app.saved.device
            /\ now.rotate = app.saved.rotate

\* no two entries of the list share an id (uid() draws seven base-36 digits)
UniqueIds(xs) ==
    \A i, j \in 1..Len(xs) : i # j => xs[i].id # xs[j].id

\* C19: removeItem(id) removes exactly the entry with that id, whatever its
\* origin, and leaves every other entry and their order as they were
C19_RemoveExactlyOne ==
    [][(app'.op = "removeItem" /\ app'.edits # app.edits /\ UniqueIds(items))
         => \E k \in 1..Len(items) :
              /\ items[k].id = app'.arg
              /\ items' = SubSeq(items, 1, k - 1)
                            \o SubSeq(items, k + 1, Len(items))]_vars

\* an upload and then a preset have been removed from a stored list of three
C19_Witness ==
    /\ Running /\ app.op = "removeItem" /\ app.arg = "p1"
    /\ items = <<FavoritePresetEntry>>

\* every entry of the list has favorite true or false
AllFavoritesBoolean(xs) ==
    \A i \in 1..Len(xs) : xs[i].favorite \in {JBool(TRUE), JBool(FALSE)}

\* an entry that keeps its id over a step keeps every field but favorite
OtherFieldsKept(before, after) ==
    \A i \in 1..Len(before), j \in 1..Len(after) :
      before[i].id = after[j].id
        => [after[j] EXCEPT !.favorite = before[i].favorite] = before[i]

\* the list a load reads: the stored array without its null elements
StoredList == SelectSeq(ls.items.arr, LAMBDA x : x # NullEntry)

----------------------------------------------------------------------------
(* Claims about uploads *)

\* the extensions of the allow list, as the name of a file ends in them
AllowedExtensions ==
    {"avif", "webp", "jpg", "jpeg", "png", "gif", "bmp", "svg",
     "AVIF", "WEBP", "JPG", "JPEG", "PNG", "GIF", "BMP", "SVG"}

\* a file addUploads is to accept: an image by its declared type or by its
\* extension, that can be read
Acceptable(f) ==
    /\ \/ (Len(f.type) >= 6 /\ SubSeq(f.type, 1, 6) = "image/")
       \/ \E e \in AllowedExtensions :
            /\ Len(f.name) > Len(e)
            /\ SubSeq(f.name, Len(f.name) - Len(e), Len(f.name)) = "." \o e
    /\ f.readable

\* addUploads has just run
Uploaded == app'.op = "addUploads" /\ app'.edits # app.edits

\* C21: addUploads prepends one image entry for exactly the files that are
\* images by type or by extension and can be read, in file order; the other
\* files add nothing, and a batch with no accepted file leaves items and
\* index as they were
C21_UploadsAccepted ==
    [][Uploaded =>
         LET acc == SelectSeq(app'.files, Acceptable)
             n == Len(acc)
         IN  IF n = 0
             THEN items' = items /\ index' = index
             ELSE /\ Len(items') = n + Len(items)
                  /\ \A i \in 1..n :
                       /\ items'[i].name = acc[i].name
                       /\ items'[i].type = "image"
                       /\ items'[i].origin = "upload"
                       /\ items'[i].src = fileToDataURL(acc[i])
                  /\ \A k \in 1..Len(items) : items'[n + k] = items[k]]_vars

\* two of three selected files were accepted and stand first, in file order
C21_Witness ==
    /\ Running /\ app.op = "addUploads" /\ Len(app.files) = 3
    /\ Len(items) >= 3
    /\ items[1].name = "e.webp" /\ items[2].name = "g.svg"
    /\ items[3].origin = "preset"

----------------------------------------------------------------------------
(* Claims about the CSS export *)

\* the text of the CSS export shape with its five places filled in
CssExportShape(image, size, rep, position, alpha) ==
    "/* Background */\n" \o
    ".selector {\n" \o
    "  background-image: " \o image \o ";\n" \o
    "  background-size: " \o size \o ";\n" \o
    "  background-repeat: " \o rep \o ";\n" \o
    "  background-position: " \o position \o ";\n" \o
    "  position: relative;\n" \o
    "}\n" \o
    "/* Overlay */\n" \o
    ".selector::before {\n" \o
    "  content: \"\"; position: absolute; inset: 0;\n" \o
    "  background: rgba(0,0,0," \o alpha \o ");\n" \o
    "  pointer-events: none;\n" \o
    "}"

\* n hundredths written with exactly two decimals
Hundredths(n) ==
    ToString(n \div 100) \o "." \o ToString((n % 100) \div 10)
        \o ToString(n % 10)

\* C22: cssSnippet(entry, fit, repeat, pos, overlay) is exactly the two-rule
\* text of the CSS export shape: url(src) for an image entry, the gradient
\* text for a gradient entry, none for no entry; size fit; repeat or
\* no-repeat; position pos; the overlay alpha is overlay with exactly two
\* decimals (a number of hundredths nearest to overlay)
C22_CssSnippetShape ==
    snippet # "" =>
        \E n \in 0..100 :
            /\ RatLE(RatSub(RatMul(overlay, Num(200)), Num(1)), Num(2 * n))
            /\ RatLE(Num(2 * n), RatAdd(RatMul(overlay, Num(200)), Num(1)))
            /\ snippet =
                 CssExportShape(
                   IF item.type = "image" THEN "url(" \o item.src \o ")"
                   ELSE IF item.type = "css" THEN item.css ELSE "none",
                   fit,
                   IF repeat THEN "repeat" ELSE "no-repeat",
                   pos,
                   Hundredths(n))

\* the snippet of a gradient entry with overlay 1/3 has been written
C22_Witness ==
    /\ snippet # "" /\ item.type = "css" /\ overlay = <<1, 3>> /\ repeat
    /\ Includes(snippet, "rgba(0,0,0,0.33);")

----------------------------------------------------------------------------
(* Claims about degenerate geometry *)

\* C23: with a source or destination dimension of zero, computeDrawRect
\* returns a rectangle whose offsets and sizes are all finite numbers
\* (neither NaN nor infinite), for every fit and anchor
C23_DegenerateRectFinite ==
    Drawn => /\ IsFinite(rect.dx) /\ IsFinite(rect.dy)
             /\ IsFinite(rect.dw) /\ IsFinite(rect.dh)

----------------------------------------------------------------------------
(* Claims about the gradient redraw *)

\* the colour stops extractColors returned to the copy that drew
ExtractedStops ==
    IF grad.by = "tsx" THEN extractColors(item.css)
    ELSE extractColorsScript(ToLowerCase(item.css))

\* C24: for a gradient entry the canvas gradient has every colour stop
\* extractColors returned (up to 6), in extracted order, and is radial when
\* the descriptor is a radial-gradient and linear otherwise
C24_GradientRebuilt ==
    grad # NoGradient =>
        /\ grad.kind = IF SubSeq(item.css, 1, 15) = "radial-gradient"
                       THEN "radial" ELSE "linear"
        /\ Len(grad.stops) = Len(ExtractedStops)
        /\ \A i \in 1..Len(grad.stops) :
             grad.stops[i].color = ExtractedStops[i]

----------------------------------------------------------------------------
(* Claims about the index *)

\* C25: whenever the items list is not empty, index is an integer with
\* 0 <= index < items.length, after any sequence of load, addUploads,
\* removeItem, arrow keys and thumbnail selection by click or keys 1 .. 9
C25_IndexInRange ==
    (Running /\ items # <<>>) => index \in 0..(Len(items) - 1)

----------------------------------------------------------------------------
(* Claims about the compare slots and the PNG export's start *)

\* over one addUploads or removeItem step: the entry a slot denoted before
\* (slot value before, before) is the entry it denotes after (slot value
\* after), and no entry once that entry itself was removed
SlotKept(before, after) ==
    LET e == compareAt(items, before)
        e2 == compareAt(items', after)
    IN  (e # NullEntry /\ app' # app
         /\ app'.op \in {"addUploads", "removeItem"})
        => IF app'.op = "removeItem" /\ app'.arg = e.id THEN e2 = NullEntry
           ELSE e2 # NullEntry /\ e2.id = e.id

\* C26: once setCompareSlot has recorded the current entry in slot A or B,
\* compareA / compareB denotes the entry of the same id after every later
\* addUploads and every removeItem of another entry, and denotes no entry
\* once that entry itself has been removed
C26_SlotKeepsEntry ==
    [][SlotKept(slotA, slotA') /\ SlotKept(slotB, slotB')]_vars

\* C27: a PNG export started with the P key is called with the showB, slotA
\* and slotB (and so the compare entries) that are current when the key is
\* pressed, the ones the Export PNG button's call would be given
C27_KeyExportIsCurrent ==
    (Running /\ app.op = "P")
    => pngCall = PngCall("P", KeyScope(showB, slotA, slotB, index), items)

----------------------------------------------------------------------------
(* Claims about the debounced auto-save *)

\* the stored value st is the serialisation of the component's state
HoldsLatest(st) == [st EXCEPT !.by = "saved"] = CurrentState("saved")

\* a pending timeout was set for the state the component is in
TimerIsCurrent ==
    (Running /\ saveTimer.pending) => HoldsLatest(saveTimer.state)

\* what the timeout's callback wrote is the state the component is in
WriteIsCurrent == (Running /\ app.op = "autosave") => HoldsLatest(ls)

\* no timeout is pending: the changes stopped and the last timeout fired
Settled == Running /\ ~saveTimer.pending

\* C28: the debounced auto-save never writes a stale state: every change of
\* the state clears the pending timeout, so no timeout set for an earlier
\* state fires after a later change, a pending timeout fires once the
\* changes stop (within the session's MaxEdits steps), and from then on the
\* storage key holds the serialisation of the latest state
C28_AutosaveNeverStale ==
    /\ [](TimerIsCurrent /\ WriteIsCurrent)
    /\ (Running /\ saveTimer.pending) ~> (Settled \/ ~CanEdit)
    /\ [](Settled => HoldsLatest(ls))

----------------------------------------------------------------------------
(* Claims about uploads in flight *)

\* every addUploads call made has returned, and at least two were made
AllReturned == Len(uploads) >= 2 /\ InFlight = {}

\* the names of the files of the calls
UploadNames ==
    UNION { {uploads[b].list[k].name : k \in 1..Len(uploads[b].list)} :
            b \in 1..Len(uploads) }

\* the places <<b, k>> of the files of the calls
FilePlaces ==
    UNION { {<<b, k>> : k \in 1..Len(uploads[b].list)} :
            b \in 1..Len(uploads) }

\* how many entries the calls pushed
Pushed == LET RECURSIVE Sum(_)
              Sum(b) == IF b = 0 THEN 0
                        ELSE Len(uploads[b].adds) + Sum(b - 1)
          IN  Sum(Len(uploads))

\* how many accepted files of the calls have the name n
AcceptedNamed(n) ==
    Cardinality({ p \in FilePlaces :
                    /\ Acceptable(uploads[p[1]].list[p[2]])
                    /\ uploads[p[1]].list[p[2]].name = n })

\* how many entries of items that were not there before the first call
\* are the upload of a file of the name n
AddedNamed(n) ==
    Cardinality({ i \in 1..Len(items) :
                    /\ items[i].id \notin Ids(uploads[1].prev)
                    /\ items[i].name = n
                    /\ items[i].origin = "upload"
                    /\ items[i].type = "image" })

----------------------------------------------------------------------------
(* Claims about the card text's contrast *)

\* C30: for every overlay, cardOpacity and cardColor the card-text estimate
\* of chooseTextColorForCard / estimateCardContrast has a ratio of at least
\* 4.5, so passAA is true in every case
C30_CardTextAlwaysAA ==
    contrastCard.done
    => RatLE(<<9, 2>>, contrastCard.ratio) /\ contrastCard.passAA

\* a transparent card over overlay 0.82: L_card = 0.18, near the luminance
\* at which white and black text do equally badly; black text reaches 4.6
C30_Witness ==
    /\ contrastCard.done
    /\ overlay = <<41, 50>> /\ cardOpacity = Num(0)
    /\ contrastCard.color = "black"
    /\ contrastCard.ratio = <<23, 5>>
    /\ contrastCard.passAA /\ ~contrastCard.passAAA

====
